---------------------------- MODULE Spec2Model ----------------------------
(***************************************************************************)
(* Sentinel: the personal knowledge-graph chat loop.  The model covers the *)
(* session loop of main.py, the conflict engine of conflicts.py, the store *)
(* helpers of kg_store.py, the command surface of commands.py and the      *)
(* fact builders of curator.py / enricher.py / extract.py / utils.py.      *)
(* Strings are TLA+ strings; Python's str methods are operators below.     *)
(***************************************************************************)
EXTENDS Integers, Sequences, FiniteSets, TLC

(***************************************************************************)
(* Bounds of the model.                                                    *)
(***************************************************************************)
\* the wall clock (make_timestamp, in seconds) runs up to MaxTime: at most
\* MaxTime turns reach the store loop
MaxTime == 2

(***************************************************************************)
(* Python str primitives.                                                  *)
(***************************************************************************)
UpperLetters == "ABCDEFGHIJKLMNOPQRSTUVWXYZ"
LowerLetters == "abcdefghijklmnopqrstuvwxyz"
DigitChars == "0123456789"

Char(s, i) == SubSeq(s, i, i)

UpperSet == {Char(UpperLetters, i) : i \in 1..Len(UpperLetters)}
LowerSet == {Char(LowerLetters, i) : i \in 1..Len(LowerLetters)}
DigitSet == {Char(DigitChars, i) : i \in 1..Len(DigitChars)}

\* the lower-case (upper-case) letter of every upper-case (lower-case) letter
ToLower == [c \in UpperSet |->
              Char(LowerLetters, CHOOSE i \in 1..Len(UpperLetters) : Char(UpperLetters, i) = c)]
ToUpper == [c \in LowerSet |->
              Char(UpperLetters, CHOOSE i \in 1..Len(LowerLetters) : Char(LowerLetters, i) = c)]

IsUpperChar(c) == c \in UpperSet
IsLowerChar(c) == c \in LowerSet
IsDigitChar(c) == c \in DigitSet
IsAlnumChar(c) == IsUpperChar(c) \/ IsLowerChar(c) \/ IsDigitChar(c)
IsSpaceChar(c) == c = " "

LowerChar(c) == IF c \in UpperSet THEN ToLower[c] ELSE c

UpperChar(c) == IF c \in LowerSet THEN ToUpper[c] ELSE c

RECURSIVE str_lower(_)
str_lower(s) ==
    IF s = "" THEN "" ELSE LowerChar(Char(s, 1)) \o str_lower(Tail(s))

RECURSIVE str_upper(_)
str_upper(s) ==
    IF s = "" THEN "" ELSE UpperChar(Char(s, 1)) \o str_upper(Tail(s))

RECURSIVE str_lstrip(_)
str_lstrip(s) ==
    IF s = "" THEN ""
    ELSE IF IsSpaceChar(Char(s, 1)) THEN str_lstrip(Tail(s))
    ELSE s

RECURSIVE str_rstrip(_)
str_rstrip(s) ==
    IF s = "" THEN ""
    ELSE IF IsSpaceChar(Char(s, Len(s))) THEN str_rstrip(SubSeq(s, 1, Len(s) - 1))
    ELSE s

str_strip(s) == str_rstrip(str_lstrip(s))

str_startswith(s, p) == Len(p) <= Len(s) /\ SubSeq(s, 1, Len(p)) = p

\* Python's  p in s  for strings
str_contains(s, p) ==
    \E i \in 1..(Len(s) - Len(p) + 1) : SubSeq(s, i, i + Len(p) - 1) = p

(***************************************************************************)
(* Canonicalizer: utils.norm and extract.normalize_relation.               *)
(***************************************************************************)
RECURSIVE MapNonAlnum(_)
MapNonAlnum(s) ==
    IF s = "" THEN ""
    ELSE (IF IsAlnumChar(Char(s, 1)) THEN Char(s, 1) ELSE "_") \o MapNonAlnum(Tail(s))

IdMaxLen == 60

\* the prefix added after the cut instead of before it
norm_mutant_cut_first(text) ==
    LET t1  == IF text = "" THEN "node" ELSE text
        o1  == MapNonAlnum(t1)
        o2  == IF o1 = "" THEN "node" ELSE o1
        o3  == SubSeq(o2, 1, IF Len(o2) < IdMaxLen THEN Len(o2) ELSE IdMaxLen)
    IN  IF IsDigitChar(Char(o3, 1)) THEN "id_" \o o3 ELSE o3

norm(text) ==
    LET t1  == IF text = "" THEN "node" ELSE text
        o1  == MapNonAlnum(t1)
        o2  == IF o1 = "" THEN "node" ELSE o1
        o3  == IF IsDigitChar(Char(o2, 1)) THEN "id_" \o o2 ELSE o2
    IN  SubSeq(o3, 1, IF Len(o3) < IdMaxLen THEN Len(o3) ELSE IdMaxLen)

\* re.sub(r"([a-z0-9])([A-Z])", r"\1_\2", r): non-overlapping matches, left to right
RECURSIVE CamelSplit(_)
CamelSplit(s) ==
    IF Len(s) < 2 THEN s
    ELSE IF /\ (IsLowerChar(Char(s, 1)) \/ IsDigitChar(Char(s, 1)))
            /\ IsUpperChar(Char(s, 2))
         THEN Char(s, 1) \o "_" \o Char(s, 2) \o CamelSplit(SubSeq(s, 3, Len(s)))
         ELSE Char(s, 1) \o CamelSplit(Tail(s))

\* one pass of str.replace("__", "_")
RECURSIVE ReplaceDoubleUnderscore(_)
ReplaceDoubleUnderscore(s) ==
    IF Len(s) < 2 THEN s
    ELSE IF SubSeq(s, 1, 2) = "__"
         THEN "_" \o ReplaceDoubleUnderscore(SubSeq(s, 3, Len(s)))
         ELSE Char(s, 1) \o ReplaceDoubleUnderscore(Tail(s))

\* while "__" in r: r = r.replace("__", "_")
RECURSIVE CollapseUnderscores(_)
CollapseUnderscores(s) ==
    IF str_contains(s, "__") THEN CollapseUnderscores(ReplaceDoubleUnderscore(s)) ELSE s

RECURSIVE StripUnderscoresLeft(_)
StripUnderscoresLeft(s) ==
    IF s = "" THEN ""
    ELSE IF Char(s, 1) = "_" THEN StripUnderscoresLeft(Tail(s))
    ELSE s

RECURSIVE StripUnderscoresRight(_)
StripUnderscoresRight(s) ==
    IF s = "" THEN ""
    ELSE IF Char(s, Len(s)) = "_" THEN StripUnderscoresRight(SubSeq(s, 1, Len(s) - 1))
    ELSE s

normalize_relation(rel_type) ==
    LET r0 == str_strip(rel_type)
        r1 == CamelSplit(r0)
        r2 == str_upper(MapNonAlnum(r1))
        r3 == CollapseUnderscores(r2)
        r4 == StripUnderscoresRight(StripUnderscoresLeft(r3))
    IN  IF r0 = "" THEN "RELATED_TO"
        ELSE IF r4 = "" THEN "RELATED_TO" ELSE r4

(***************************************************************************)
(* The graph store (Neo4j through camel's Neo4jGraph).  An edge carries    *)
(* subj, rel, obj, timestamp and the optional status attribute ("none"     *)
(* when the attribute is absent).  The store is the list of its edges in   *)
(* insertion order.                                                        *)
(***************************************************************************)
Edge(subj, rel, obj, timestamp, status) ==
    [subj |-> subj, rel |-> rel, obj |-> obj, timestamp |-> timestamp, status |-> status]

\* neo.get_triplet(): one mapping per edge with keys subj, obj, rel, timestamp
TripletDict(e) ==
    [subj |-> e.subj, rel |-> e.rel, obj |-> e.obj, timestamp |-> e.timestamp]

get_all_triplets(st) == [i \in 1..Len(st) |-> TripletDict(st[i])]

\* neo.add_triplet(subj=, obj=, rel=, timestamp=): a new edge without status
add_triplet(st, subj, obj, rel, timestamp) ==
    Append(st, Edge(subj, rel, obj, timestamp, "none"))

\* MATCH (a {id: $subj})-[r:`rel` {timestamp: $ts}]->(b {id: $obj})
CypherMatch(e, subj, rel, ts, obj) ==
    e.subj = subj /\ e.rel = rel /\ e.timestamp = ts /\ e.obj = obj

\* ... SET r.status = status
CypherSetStatus(st, subj, rel, ts, obj, status) ==
    [i \in 1..Len(st) |->
        IF CypherMatch(st[i], subj, rel, ts, obj)
        THEN [st[i] EXCEPT !.status = status]
        ELSE st[i]]

\* ... DELETE r
CypherDelete(st, subj, rel, ts, obj) ==
    SelectSeq(st, LAMBDA e : ~CypherMatch(e, subj, rel, ts, obj))

triplet_exists_mutant_never(st, subj, rel, obj) == FALSE

triplet_exists(st, subj, rel, obj) ==
    Cardinality({i \in 1..Len(st) :
        st[i].subj = subj /\ st[i].obj = obj /\ st[i].rel = rel}) > 0

RECURSIVE DeleteAll(_, _)
DeleteAll(st, to_delete) ==
    IF to_delete = <<>> THEN st
    ELSE LET d == Head(to_delete)
         IN  DeleteAll(CypherDelete(st, d.subj, d.rel, d.timestamp, d.obj), Tail(to_delete))

remove_knowledge(st, pattern) ==
    LET pattern_l == str_lower(pattern)
        to_delete == SelectSeq(get_all_triplets(st), LAMBDA t :
                        \/ str_contains(str_lower(t.subj), pattern_l)
                        \/ str_contains(str_lower(t.rel), pattern_l)
                        \/ str_contains(str_lower(t.obj), pattern_l))
    IN  DeleteAll(st, to_delete)

(***************************************************************************)
(* Conflict engine (conflicts.py).                                         *)
(***************************************************************************)
SINGLE_VALUED_RELATIONS ==
    {"LIVES_IN", "WORKS_AT", "STUDIES_AT", "HAS_PHONE_NUMBER", "HAS_EMAIL",
     "HAS_BIRTHDATE", "CURRENT_ROLE", "CURRENT_JOB"}

is_single_valued(rel_type) == str_upper(rel_type) \in SINGLE_VALUED_RELATIONS

detect_conflicts_mutant_case(st, subj, rel_type, obj) ==
    IF ~is_single_valued(rel_type) THEN <<>>
    ELSE SelectSeq(get_all_triplets(st), LAMBDA t :
            t.subj = subj /\ t.rel = rel_type /\ t.obj # obj)

\* the comparison without the single-valued test
detect_conflicts_mutant_any_relation(st, subj, rel_type, obj) ==
    LET rel_norm == str_lower(rel_type)
    IN  SelectSeq(get_all_triplets(st), LAMBDA t :
            t.subj = subj /\ str_lower(t.rel) = rel_norm /\ t.obj # obj)

\* the detection that passes over the facts marked past
detect_conflicts_mutant_skip_past(st, subj, rel_type, obj) ==
    IF ~is_single_valued(rel_type) THEN <<>>
    ELSE LET rel_norm == str_lower(rel_type)
         IN  SelectSeq(get_all_triplets(SelectSeq(st, LAMBDA e : e.status # "past")),
                LAMBDA t :
                    t.subj = subj /\ str_lower(t.rel) = rel_norm /\ t.obj # obj)

detect_conflicts(st, subj, rel_type, obj) ==
    IF ~is_single_valued(rel_type) THEN <<>>
    ELSE LET rel_norm == str_lower(rel_type)
         IN  SelectSeq(get_all_triplets(st), LAMBDA t :
                t.subj = subj /\ str_lower(t.rel) = rel_norm /\ t.obj # obj)

\* the matching without  .lower()
interpret_conflict_choice_mutant_case(user_text) ==
    LET t == str_strip(user_text)
    IN  IF t \in {"a", "option a"} \/ str_contains(t, "outdated")
           \/ str_contains(t, "new fact is correct") THEN "A"
        ELSE IF t \in {"b", "option b"} \/ str_contains(t, "both")
           \/ str_contains(t, "both true") THEN "B"
        ELSE IF t \in {"c", "option c"} \/ str_contains(t, "keep the old")
           \/ str_contains(t, "wrong") \/ str_contains(t, "incorrect") THEN "C"
        ELSE IF str_startswith(t, "a ") THEN "A"
        ELSE IF str_startswith(t, "b ") THEN "B"
        ELSE IF str_startswith(t, "c ") THEN "C"
        ELSE "None"

\* the matching without the leading-letter forms
interpret_conflict_choice_mutant_no_leading(user_text) ==
    LET t == str_lower(str_strip(user_text))
    IN  IF t \in {"a", "option a"} \/ str_contains(t, "outdated")
           \/ str_contains(t, "new fact is correct") THEN "A"
        ELSE IF t \in {"b", "option b"} \/ str_contains(t, "both")
           \/ str_contains(t, "both true") THEN "B"
        ELSE IF t \in {"c", "option c"} \/ str_contains(t, "keep the old")
           \/ str_contains(t, "wrong") \/ str_contains(t, "incorrect") THEN "C"
        ELSE "None"

interpret_conflict_choice(user_text) ==
    LET t == str_lower(str_strip(user_text))
    IN  IF t \in {"a", "option a"} \/ str_contains(t, "outdated")
           \/ str_contains(t, "new fact is correct") THEN "A"
        ELSE IF t \in {"b", "option b"} \/ str_contains(t, "both")
           \/ str_contains(t, "both true") THEN "B"
        ELSE IF t \in {"c", "option c"} \/ str_contains(t, "keep the old")
           \/ str_contains(t, "wrong") \/ str_contains(t, "incorrect") THEN "C"
        ELSE IF str_startswith(t, "a ") THEN "A"
        ELSE IF str_startswith(t, "b ") THEN "B"
        ELSE IF str_startswith(t, "c ") THEN "C"
        ELSE "None"

\* for t in old_list: MATCH ... {timestamp: t.timestamp} ... {id: t.obj} SET r.status = status
RECURSIVE MarkOld(_, _, _, _, _)
MarkOld(st, subj, rel, old_list, status) ==
    IF old_list = <<>> THEN st
    ELSE LET t == Head(old_list)
         IN  MarkOld(CypherSetStatus(st, subj, rel, t.timestamp, t.obj, status),
                     subj, rel, Tail(old_list), status)

\* A that marks the old facts current instead of past
apply_conflict_resolution_mutant_a_old_current(st, choice, conflict) ==
    IF choice = "C"
    THEN CypherDelete(st, conflict.subj, conflict.rel, conflict.new_ts, conflict.new_obj)
    ELSE IF choice \in {"A", "B"}
    THEN CypherSetStatus(MarkOld(st, conflict.subj, conflict.rel, conflict.old, "current"),
                         conflict.subj, conflict.rel, conflict.new_ts, conflict.new_obj,
                         "current")
    ELSE st

\* A that marks the new fact only
apply_conflict_resolution_mutant_a_new_only(st, choice, conflict) ==
    IF choice = "C"
    THEN CypherDelete(st, conflict.subj, conflict.rel, conflict.new_ts, conflict.new_obj)
    ELSE IF choice = "B"
    THEN CypherSetStatus(MarkOld(st, conflict.subj, conflict.rel, conflict.old, "current"),
                         conflict.subj, conflict.rel, conflict.new_ts, conflict.new_obj,
                         "current")
    ELSE IF choice = "A"
    THEN CypherSetStatus(st, conflict.subj, conflict.rel, conflict.new_ts,
                         conflict.new_obj, "current")
    ELSE st

\* B that marks the new fact only
apply_conflict_resolution_mutant_b_new_only(st, choice, conflict) ==
    IF choice = "C"
    THEN CypherDelete(st, conflict.subj, conflict.rel, conflict.new_ts, conflict.new_obj)
    ELSE IF choice = "A"
    THEN CypherSetStatus(MarkOld(st, conflict.subj, conflict.rel, conflict.old, "past"),
                         conflict.subj, conflict.rel, conflict.new_ts, conflict.new_obj,
                         "current")
    ELSE IF choice = "B"
    THEN CypherSetStatus(st, conflict.subj, conflict.rel, conflict.new_ts,
                         conflict.new_obj, "current")
    ELSE st

\* C whose MATCH names the subject and the relation only
apply_conflict_resolution_mutant_c_relation(st, choice, conflict) ==
    IF choice = "C"
    THEN SelectSeq(st, LAMBDA e : ~(e.subj = conflict.subj /\ e.rel = conflict.rel))
    ELSE IF choice \in {"A", "B"}
    THEN CypherSetStatus(MarkOld(st, conflict.subj, conflict.rel, conflict.old,
                                 IF choice = "A" THEN "past" ELSE "current"),
                         conflict.subj, conflict.rel, conflict.new_ts, conflict.new_obj,
                         "current")
    ELSE st

\* A and B whose MATCH leaves out the object: {id: $obj} is not tested
apply_conflict_resolution_mutant_no_object(st, choice, conflict) ==
    IF choice = "C"
    THEN CypherDelete(st, conflict.subj, conflict.rel, conflict.new_ts, conflict.new_obj)
    ELSE IF choice \in {"A", "B"}
    THEN [i \in 1..Len(st) |->
            IF /\ st[i].subj = conflict.subj /\ st[i].rel = conflict.rel
               /\ st[i].timestamp = conflict.new_ts
            THEN [st[i] EXCEPT !.status = "current"]
            ELSE IF /\ st[i].subj = conflict.subj /\ st[i].rel = conflict.rel
                    /\ \E k \in 1..Len(conflict.old) :
                            st[i].timestamp = conflict.old[k].timestamp
            THEN [st[i] EXCEPT !.status = IF choice = "A" THEN "past" ELSE "current"]
            ELSE st[i]]
    ELSE st

apply_conflict_resolution(st, choice, conflict) ==
    LET subj == conflict.subj
        rel == conflict.rel
        new_obj == conflict.new_obj
        new_ts == conflict.new_ts
        old_list == conflict.old
    IN  IF choice = "A"
        THEN CypherSetStatus(MarkOld(st, subj, rel, old_list, "past"),
                             subj, rel, new_ts, new_obj, "current")
        ELSE IF choice = "B"
        THEN CypherSetStatus(MarkOld(st, subj, rel, old_list, "current"),
                             subj, rel, new_ts, new_obj, "current")
        ELSE IF choice = "C"
        THEN CypherDelete(st, subj, rel, new_ts, new_obj)
        ELSE st

(***************************************************************************)
(* Language-model replies.  A reply is either not a JSON object            *)
(* (json = FALSE) or an object whose list items are dictionaries           *)
(* (isdict = TRUE, d the dictionary, keys optional) or something else.     *)
(***************************************************************************)
DictItem(d) == [isdict |-> TRUE, d |-> d]
NonDictItem == [isdict |-> FALSE, d |-> [other |-> ""]]

\* Python's  d.get(k, default)
dict_get(d, k, default) == IF k \in DOMAIN d THEN d[k] ELSE default

Triplet(subj, rel, obj) == [subj |-> subj, rel |-> rel, obj |-> obj]

\* seen = set(); keep the first occurrence of every element
RECURSIVE DedupPreserveOrder(_, _)
DedupPreserveOrder(out, seen) ==
    IF out = <<>> THEN <<>>
    ELSE IF Head(out) \in seen THEN DedupPreserveOrder(Tail(out), seen)
    ELSE <<Head(out)>> \o DedupPreserveOrder(Tail(out), seen \cup {Head(out)})

(***************************************************************************)
(* Curator (curator.py): run_curator on the model's reply.                 *)
(***************************************************************************)
RECURSIVE NormalizeCandidates(_)
NormalizeCandidates(candidates) ==
    IF candidates = <<>> THEN <<>>
    ELSE LET c == Head(candidates)
             s0 == str_strip(dict_get(c.d, "subj", "USER"))
             subj == IF s0 = "" THEN "USER" ELSE s0
             rel == str_strip(dict_get(c.d, "rel", "FACT"))
             objv == str_strip(dict_get(c.d, "obj", ""))
             rest == NormalizeCandidates(Tail(candidates))
         IN  IF ~c.isdict THEN rest
             ELSE IF rel = "" \/ objv = "" THEN rest
             ELSE <<Triplet(subj, rel, objv)>> \o rest

run_curator(reply) ==
    IF ~reply.json
    THEN [candidates |-> <<>>,
          notes |-> <<"Curator output was not valid JSON; stored nothing.">>]
    ELSE [candidates |-> NormalizeCandidates(reply.candidates),
          notes |-> <<>>]

(***************************************************************************)
(* Enricher (enricher.py): run_enricher and build_triplets_from_enricher.  *)
(***************************************************************************)
RECURSIVE NormalizeRelations_mutant_keep_incomplete(_)
RECURSIVE NormalizeRelations(_)
\* the normalization skipping only what is not a dictionary
NormalizeRelations_mutant_keep_incomplete(relations) ==
    IF relations = <<>> THEN <<>>
    ELSE LET r == Head(relations)
             subj == str_strip(dict_get(r.d, "subj", ""))
             rel == str_strip(dict_get(r.d, "rel", ""))
             objv == str_strip(dict_get(r.d, "obj", ""))
             rest == NormalizeRelations_mutant_keep_incomplete(Tail(relations))
         IN  IF ~r.isdict THEN rest
             ELSE <<Triplet(subj, rel, objv)>> \o rest

NormalizeRelations(relations) ==
    IF relations = <<>> THEN <<>>
    ELSE LET r == Head(relations)
             subj == str_strip(dict_get(r.d, "subj", ""))
             rel == str_strip(dict_get(r.d, "rel", ""))
             objv == str_strip(dict_get(r.d, "obj", ""))
             rest == NormalizeRelations(Tail(relations))
         IN  IF ~r.isdict THEN rest
             ELSE IF subj = "" \/ rel = "" \/ objv = "" THEN rest
             ELSE <<Triplet(subj, rel, objv)>> \o rest

run_enricher(reply) ==
    IF ~reply.json
    THEN [entities |-> <<>>, relations |-> <<>>,
          notes |-> <<"Enricher output was not valid JSON.">>]
    ELSE [entities |-> reply.entities,
          relations |-> NormalizeRelations(reply.relations),
          notes |-> <<>>]

\* hashlib.sha1(base.encode("utf-8")).hexdigest()[:10] for the bases the model uses
Sha1Hex10(base) ==
    CASE base = "place:sydney" -> "852c1ac6a0"
      [] base = "place:melbourne" -> "21946de7f5"
      [] base = "event:meeting" -> "84e90adae5"
      [] base = "program:phd" -> "9f081e71b2"

_stable_entity_id(entity_type, label) ==
    LET base == str_lower(str_strip(entity_type \o ":" \o label))
        h == Sha1Hex10(base)
    IN  norm(str_lower(entity_type) \o "_" \o label \o "_" \o h)

\* key_to_node as the list of its assignments; the latest assignment of a key wins
RECURSIVE KeyToNode(_)
KeyToNode(entities) ==
    IF entities = <<>> THEN <<>>
    ELSE LET e == Head(entities)
             key == str_strip(dict_get(e.d, "key", ""))
             label == str_strip(dict_get(e.d, "label", ""))
             etype == str_upper(str_strip(dict_get(e.d, "type", "OTHER")))
             rest == KeyToNode(Tail(entities))
         IN  IF ~e.isdict THEN rest
             ELSE IF key = "" \/ label = "" THEN rest
             ELSE <<[key |-> key, node |-> _stable_entity_id(etype, label)]>> \o rest

RECURSIVE Lookup(_, _, _)
Lookup(key_to_node, x, i) ==
    IF i = 0 THEN ""
    ELSE IF key_to_node[i].key = x THEN key_to_node[i].node
    ELSE Lookup(key_to_node, x, i - 1)

map_node(x0, key_to_node, user_canonical_id) ==
    LET x == str_strip(x0)
    IN  IF str_upper(x) = "USER" THEN norm(user_canonical_id)
        ELSE IF \E i \in 1..Len(key_to_node) : key_to_node[i].key = x
             THEN Lookup(key_to_node, x, Len(key_to_node))
        ELSE norm(x)

RECURSIVE MapRelations(_, _, _)
MapRelations(relations, key_to_node, user_canonical_id) ==
    IF relations = <<>> THEN <<>>
    ELSE LET r == Head(relations)
             subj == map_node(r.subj, key_to_node, user_canonical_id)
             rel == normalize_relation(r.rel)
             objv == map_node(r.obj, key_to_node, user_canonical_id)
             rest == MapRelations(Tail(relations), key_to_node, user_canonical_id)
         IN  IF subj = "" \/ objv = "" THEN rest
             ELSE IF subj = objv THEN rest
             ELSE <<Triplet(subj, rel, objv)>> \o rest

build_triplets_from_enricher(enricher, user_canonical_id) ==
    DedupPreserveOrder(
        MapRelations(enricher.relations, KeyToNode(enricher.entities), user_canonical_id),
        {})

\* main.py's fallback: the Curator candidates stored flat
RECURSIVE FallbackTriplets(_, _)
FallbackTriplets(candidates, user_canonical_id) ==
    IF candidates = <<>> THEN <<>>
    ELSE LET c == Head(candidates)
             subj == IF str_upper(c.subj) = "USER" THEN user_canonical_id
                     ELSE str_strip(c.subj)
             rel == str_strip(c.rel)
             objv == str_strip(c.obj)
             rest == FallbackTriplets(Tail(candidates), user_canonical_id)
         IN  IF subj = "" \/ objv = "" THEN rest
             ELSE <<Triplet(norm(subj), normalize_relation(rel), norm(objv))>> \o rest

(***************************************************************************)
(* Temporal query engine (utils.detect_time_window, kg_qa.run_kg_qa).      *)
(* A datetime is a day number, the second of the day and the microsecond;  *)
(* aware tells whether it carries a UTC offset.                            *)
(***************************************************************************)
SecondsPerHour == 3600
SecondsPerDay == 86400
LastMicrosecond == 999999

Datetime(day, sec, usec, aware) ==
    [day |-> day, sec |-> sec, usec |-> usec, aware |-> aware]

\* datetime.combine(base_date, datetime.min.time()).replace(hour, minute, second=0, microsecond=0)
AtTime(base_date, hour, minute) ==
    Datetime(base_date, hour * SecondsPerHour + minute * 60, 0, FALSE)

\* dt + timedelta(seconds=n) for -86400 < n < 86400
AddSeconds(dt, n) ==
    LET total == dt.sec + n
    IN  IF total < 0
        THEN [dt EXCEPT !.day = dt.day - 1, !.sec = total + SecondsPerDay]
        ELSE IF total >= SecondsPerDay
        THEN [dt EXCEPT !.day = dt.day + 1, !.sec = total - SecondsPerDay]
        ELSE [dt EXCEPT !.sec = total]

\* the end of the day taken as the midnight that follows it
DayEnd_mutant_next_midnight(base_date) == Datetime(base_date + 1, 0, 0, FALSE)

\* day_start + timedelta(days=1) - timedelta(microseconds=1)
DayEnd(base_date) == Datetime(base_date, SecondsPerDay - 1, LastMicrosecond, FALSE)

\* a < b on two datetimes of the same kind
DtLess(a, b) ==
    \/ a.day < b.day
    \/ a.day = b.day /\ a.sec < b.sec
    \/ a.day = b.day /\ a.sec = b.sec /\ a.usec < b.usec

DtLeq(a, b) == ~DtLess(b, a)

\* question.lower().replace(".", ":")
RECURSIVE ReplaceDots(_)
ReplaceDots(s) ==
    IF s = "" THEN ""
    ELSE (IF Char(s, 1) = "." THEN ":" ELSE Char(s, 1)) \o ReplaceDots(Tail(s))

DigitValue(c) == (CHOOSE i \in 1..Len(DigitChars) : Char(DigitChars, i) = c) - 1

\* int() of a string of digits
RECURSIVE ParseInt(_)
ParseInt(s) ==
    IF s = "" THEN 0
    ELSE ParseInt(SubSeq(s, 1, Len(s) - 1)) * 10 + DigitValue(Char(s, Len(s)))

AllDigits(q, i, n) ==
    i + n - 1 <= Len(q) /\ \A k \in i..(i + n - 1) : IsDigitChar(Char(q, k))

\* the position after the whitespace run that starts at i
RECURSIVE SkipSpaces(_, _)
SkipSpaces(q, i) ==
    IF i <= Len(q) /\ IsSpaceChar(Char(q, i)) THEN SkipSpaces(q, i + 1) ELSE i

\* \s*(am|pm) at position i: the word matched, or ""
AmPmAt(q, i) ==
    LET j == SkipSpaces(q, i)
    IN  IF j + 1 <= Len(q) /\ SubSeq(q, j, j + 1) \in {"am", "pm"}
        THEN SubSeq(q, j, j + 1) ELSE ""

\* (\d{1,2})(?::(\d{2}))?\s*(am|pm) at position i with n digits for the
\* hour: with the minutes group first, then without it
HourMatchWith(q, i, n) ==
    IF ~AllDigits(q, i, n) THEN <<>>
    ELSE LET j == i + n
             with_minutes == /\ j <= Len(q) /\ Char(q, j) = ":"
                             /\ AllDigits(q, j + 1, 2)
                             /\ AmPmAt(q, j + 3) # ""
         IN  IF with_minutes
             THEN <<[h |-> SubSeq(q, i, j - 1), m |-> <<SubSeq(q, j + 1, j + 2)>>,
                     ampm |-> AmPmAt(q, j + 3)]>>
             ELSE IF AmPmAt(q, j) # ""
             THEN <<[h |-> SubSeq(q, i, j - 1), m |-> <<>>, ampm |-> AmPmAt(q, j)]>>
             ELSE <<>>

\* re.search: the leftmost position that matches, two digits tried before one
RECURSIVE HourSearch(_, _)
HourSearch(q, i) ==
    IF i > Len(q) THEN <<>>
    ELSE IF HourMatchWith(q, i, 2) # <<>> THEN HourMatchWith(q, i, 2)
    ELSE IF HourMatchWith(q, i, 1) # <<>> THEN HourMatchWith(q, i, 1)
    ELSE HourSearch(q, i + 1)

Min(a, b) == IF a < b THEN a ELSE b
Max(a, b) == IF a > b THEN a ELSE b

\* the two-hour window without the clamp to the anchor day
ExplicitWindow_mutant_no_clamp(base_date, explicit_hour, explicit_minute) ==
    LET center == AtTime(base_date, explicit_hour, explicit_minute)
    IN  <<AddSeconds(center, 0 - SecondsPerHour), AddSeconds(center, SecondsPerHour)>>

\* lines 71-86: the two-hour window around the explicit time, clamped to the day
ExplicitWindow(base_date, explicit_hour, explicit_minute) ==
    LET center == AtTime(base_date, explicit_hour, explicit_minute)
        start == AddSeconds(center, 0 - SecondsPerHour)
        end == AddSeconds(center, SecondsPerHour)
        day_start == AtTime(base_date, 0, 0)
        day_end == DayEnd(base_date)
    IN  <<IF DtLess(start, day_start) THEN day_start ELSE start,
          IF DtLess(day_end, end) THEN day_end ELSE end>>

\* the day parts with the evening window ending at 23:59:59
DayPartWindow_mutant_evening_end(base_date, morning, afternoon, evening, night) ==
    IF morning THEN <<AtTime(base_date, 5, 0), AtTime(base_date, 12, 0)>>
    ELSE IF afternoon THEN <<AtTime(base_date, 12, 0), AtTime(base_date, 18, 0)>>
    ELSE IF evening \/ night
    THEN <<AtTime(base_date, 18, 0), Datetime(base_date, SecondsPerDay - 1, 0, FALSE)>>
    ELSE <<AtTime(base_date, 0, 0), DayEnd(base_date)>>

\* lines 88-106: the fixed window of the day part, else the whole day
DayPartWindow(base_date, morning, afternoon, evening, night) ==
    IF morning THEN <<AtTime(base_date, 5, 0), AtTime(base_date, 12, 0)>>
    ELSE IF afternoon THEN <<AtTime(base_date, 12, 0), AtTime(base_date, 18, 0)>>
    ELSE IF evening \/ night THEN <<AtTime(base_date, 18, 0), DayEnd(base_date)>>
    ELSE <<AtTime(base_date, 0, 0), DayEnd(base_date)>>

\* <<>> for None, else <<start, end>>
detect_time_window(question, now) ==
    LET q == ReplaceDots(str_lower(question))
        base0 == IF str_contains(q, "yesterday") THEN <<now.day - 1>>
                 ELSE IF str_contains(q, "today") THEN <<now.day>>
                 ELSE <<>>
        hour_match == HourSearch(q, 1)
        explicit_minute ==
            IF hour_match # <<>> /\ hour_match[1].m # <<>>
            THEN Min(Max(ParseInt(hour_match[1].m[1]), 0), 59) ELSE 0
        h0 == ParseInt(hour_match[1].h)
        h1 == IF hour_match[1].ampm = "pm" /\ h0 # 12 THEN h0 + 12 ELSE h0
        h2 == IF hour_match[1].ampm = "am" /\ h1 = 12 THEN 0 ELSE h1
        explicit_hour == IF hour_match # <<>> THEN <<Min(Max(h2, 0), 23)>> ELSE <<>>
        morning == str_contains(q, "morning")
        afternoon == str_contains(q, "afternoon")
        evening == str_contains(q, "evening")
        night == str_contains(q, "night")
        base1 == IF base0 = <<>> /\ (morning \/ afternoon \/ evening \/ night)
                 THEN <<now.day>> ELSE base0
        base2 == IF base1 = <<>> /\ explicit_hour # <<>> THEN <<now.day>> ELSE base1
        base_date == base2[1]
    IN  IF base2 = <<>> /\ explicit_hour = <<>> THEN <<>>
        ELSE IF explicit_hour # <<>>
        THEN ExplicitWindow(base_date, explicit_hour[1], explicit_minute)
        ELSE DayPartWindow(base_date, morning, afternoon, evening, night)

\* an ISO-8601 timestamp string: date and time to the second, and the UTC
\* offset it ends with ("" when it has none)
IsoString(day, sec, offset) == [day |-> day, sec |-> sec, offset |-> offset]

\* extract.make_timestamp: datetime.now().astimezone().isoformat(timespec="seconds")
make_timestamp(now, local_offset) == IsoString(now.day, now.sec, local_offset)

\* utils.parse_iso_ts: datetime.fromisoformat, aware when the string has an offset
parse_iso_ts(ts) == Datetime(ts.day, ts.sec, 0, ts.offset # "")

\* start_w <= dt <= end_w raises TypeError when dt is aware: the window is naive
ComparisonRaises(window, dt) == dt.aware # window[1].aware

InWindow(window, dt) == DtLeq(window[1], dt) /\ DtLeq(dt, window[2])

\* sorted(triplets, key=timestamp): stable, by the timestamp string
RECURSIVE InsertSorted(_, _)
InsertSorted(sorted, t) ==
    IF sorted = <<>> THEN <<t>>
    ELSE IF DtLess(parse_iso_ts(t.timestamp), parse_iso_ts(Head(sorted).timestamp))
    THEN <<t>> \o sorted
    ELSE <<Head(sorted)>> \o InsertSorted(Tail(sorted), t)

RECURSIVE SortByTimestamp(_)
SortByTimestamp(ts) ==
    IF ts = <<>> THEN <<>>
    ELSE InsertSorted(SortByTimestamp(SubSeq(ts, 1, Len(ts) - 1)), ts[Len(ts)])

\* run_kg_qa's default for max_records
QaMaxRecords == 50

\* if len(triplets_sorted) > max_records: triplets_sorted[-max_records:]
LastRecords(triplets_sorted, max_records) ==
    IF Len(triplets_sorted) > max_records
    THEN SubSeq(triplets_sorted, Len(triplets_sorted) - max_records + 1,
                Len(triplets_sorted))
    ELSE triplets_sorted

\* the loop over the triplets: the facts inside the window, or all of them
\* when there is no window or no fact is inside it
FilterToWindow(all, window) ==
    IF window = <<>> THEN all
    ELSE IF \E i \in 1..Len(all) : InWindow(window, parse_iso_ts(all[i].timestamp))
    THEN SelectSeq(all, LAMBDA t : InWindow(window, parse_iso_ts(t.timestamp)))
    ELSE all

\* run_kg_qa from the loaded triplets and the detected window on.
\* raised: the call ends in an exception; evidence: the memory log handed to
\* the answer model (<<>> when the model is not called)
AnswerFrom(all, window, max_records) ==
    IF all = <<>>
    THEN [raised |-> FALSE, asked |-> FALSE, evidence |-> <<>>]
    ELSE IF /\ window # <<>>
            /\ \E i \in 1..Len(all) :
                    ComparisonRaises(window, parse_iso_ts(all[i].timestamp))
    THEN [raised |-> TRUE, asked |-> FALSE, evidence |-> <<>>]
    ELSE [raised |-> FALSE, asked |-> TRUE,
          evidence |-> LastRecords(SortByTimestamp(FilterToWindow(all, window)),
                                   max_records)]

run_kg_qa(st, question, now, max_records) ==
    AnswerFrom(get_all_triplets(st), detect_time_window(question, now), max_records)

(***************************************************************************)
(* Command surface (commands.py).  handle_kg_command always answers        *)
(* handled = True; what it returns here is the store it leaves behind.     *)
(***************************************************************************)
\* sub.split(maxsplit=1) when sub starts with "remove": the text after the
\* first whitespace run, stripped ("" when there is no second part)
RECURSIVE AfterFirstWord(_)
AfterFirstWord(sub) ==
    IF sub = "" THEN ""
    ELSE IF IsSpaceChar(Char(sub, 1)) THEN str_strip(sub)
    ELSE AfterFirstWord(Tail(sub))

KgSubcommand(user_input) ==
    LET sub == str_strip(SubSeq(user_input, 4, Len(user_input)))
        sub_lower == str_lower(sub)
    IN  IF sub = "" THEN "usage"
        ELSE IF sub_lower = "clean" THEN "clean"
        ELSE IF str_startswith(sub_lower, "show") THEN "show"
        ELSE IF str_startswith(sub_lower, "remove") THEN "remove"
        ELSE "question"

handle_kg_command(st, user_input) ==
    LET sub == str_strip(SubSeq(user_input, 4, Len(user_input)))
        kind == KgSubcommand(user_input)
        pattern == AfterFirstWord(sub)
    IN  IF kind = "clean" THEN <<>>
        ELSE IF kind = "remove" /\ pattern # "" THEN remove_knowledge(st, pattern)
        ELSE st

(***************************************************************************)
(* The session loop (main.py).                                             *)
(***************************************************************************)
VARIABLES
    store,              \* the graph store: the list of edges
    pending_conflict,   \* <<>> for None, else <<the conflict record>>
    show_curator,
    show_enricher,
    running,            \* FALSE once the loop has been left (exit, quit, EOF)
    triplets,           \* the facts of the current turn still to be stored
    timestamp,          \* the current turn's make_timestamp()
    clock,              \* the wall clock at the last make_timestamp()
    last,               \* history: what the loop did with the last line read
    superseded,         \* history: the unresolved record the pending one replaced
    both_kept,          \* history: the <<subject, relation>> pairs resolved with B
    fn_args,            \* the arguments of a function applied on its own
    fn_result           \* <<>> or <<its result>>

vars == <<store, pending_conflict, show_curator, show_enricher, running,
          triplets, timestamp, clock, last, superseded, both_kept,
          fn_args, fn_result>>

fnvars == <<fn_args, fn_result>>

\* config.load_user_canonical_id's default
UserCanonicalId == "User"

\* the lines the user types
Inputs ==
    {"", "hello", "exit",
     "a", " B ", "option c",
     "curator off", "/enricher on",
     "/kg clean", "/kg show recent", "/kg remove syd",
     "/kg", "/kg where do I live", "/kg today?"}

Rel(subj, rel, obj) == DictItem([subj |-> subj, rel |-> rel, obj |-> obj])

\* what the Enricher model may answer: no JSON, or entities and relations
EnricherReplies ==
    << [json |-> FALSE, entities |-> <<>>, relations |-> <<>>],
       [json |-> TRUE, entities |-> <<>>, relations |-> <<>>],
       [json |-> TRUE, entities |-> <<>>, relations |->
            <<Rel("USER", "lives in", "Melbourne")>>],
       [json |-> TRUE, entities |-> <<>>, relations |->
            <<Rel("user", "livesIn", " Sydney")>>],
       [json |-> TRUE, entities |-> <<>>, relations |->
            <<Rel("User", "LIVES_IN", "Perth")>>],
       [json |-> TRUE, entities |-> <<>>, relations |->
            <<Rel("USER", "WORKS_AT", "Acme")>>],
       [json |-> TRUE, entities |-> <<>>, relations |->
            <<Rel("USER", "works at", "Globex")>>],
       [json |-> TRUE, entities |-> <<>>, relations |->
            <<Rel("USER", "likes", "tea")>>],
       [json |-> TRUE, entities |-> <<>>, relations |->
            <<Rel("USER", "likes", "tea"), Rel("USER", "Likes", "coffee")>>],
       [json |-> TRUE, entities |-> <<>>, relations |->
            <<Rel("USER", "knows", "User")>>],
       [json |-> TRUE, entities |-> <<>>, relations |->
            <<Rel("USER", "lives in", "Melbourne"), Rel("USER", "WORKS_AT", "Acme")>>],
       [json |-> TRUE, entities |-> <<>>, relations |->
            <<Rel("user", "livesIn", " Sydney"), Rel("USER", "works at", "Globex")>>],
       [json |-> TRUE, entities |-> <<>>, relations |->
            <<Rel("USER", "lives in", "Melbourne"), Rel("user", "livesIn", " Sydney")>>],
       [json |-> TRUE, entities |-> <<>>, relations |->
            <<Rel("USER", "likes", "tea"), Rel("user", "livesIn", " Sydney")>>],
       [json |-> TRUE, entities |-> <<>>, relations |->
            <<Rel("USER", "lives in", "Melbourne"), Rel("USER", "Lives In", "Melbourne")>>] >>

\* what the Curator model may answer: no JSON, or a list of candidates
CuratorReplies ==
    << [json |-> FALSE, candidates |-> <<>>],
       [json |-> TRUE, candidates |-> <<>>],
       [json |-> TRUE, candidates |-> <<NonDictItem, DictItem([rel |-> "likes"])>>],
       [json |-> TRUE, candidates |-> <<Rel("USER", "LIVES_IN", "Sydney")>>] >>

\* the routing without the  if choice is not None  test
Dispatch_mutant_any_reply(user_input, pending) ==
    LET lower == str_lower(user_input)
    IN  IF user_input = "" THEN "empty"
        ELSE IF lower \in {"/curator on", "curator on"} THEN "curator_on"
        ELSE IF lower \in {"/curator off", "curator off"} THEN "curator_off"
        ELSE IF lower \in {"/enricher on", "enricher on"} THEN "enricher_on"
        ELSE IF lower \in {"/enricher off", "enricher off"} THEN "enricher_off"
        ELSE IF pending # <<>> /\ ~str_startswith(lower, "/kg") THEN "resolve"
        ELSE IF str_startswith(lower, "/kg") THEN "kg"
        ELSE IF lower \in {"exit", "quit", "/exit", "/quit"} THEN "exit"
        ELSE "chat"

\* the routing that takes only the three store commands as commands
Dispatch_mutant_kg_keywords(user_input, pending) ==
    LET lower == str_lower(user_input)
    IN  IF user_input = "" THEN "empty"
        ELSE IF lower \in {"/curator on", "curator on"} THEN "curator_on"
        ELSE IF lower \in {"/curator off", "curator off"} THEN "curator_off"
        ELSE IF lower \in {"/enricher on", "enricher on"} THEN "enricher_on"
        ELSE IF lower \in {"/enricher off", "enricher off"} THEN "enricher_off"
        ELSE IF /\ pending # <<>>
                /\ ~str_startswith(lower, "/kg")
                /\ interpret_conflict_choice(user_input) # "None" THEN "resolve"
        ELSE IF /\ str_startswith(lower, "/kg")
                /\ KgSubcommand(user_input) \in {"clean", "show", "remove"} THEN "kg"
        ELSE IF lower \in {"exit", "quit", "/exit", "/quit"} THEN "exit"
        ELSE "chat"

\* lines 144-177 of main.py: where a stripped line is routed
Dispatch(user_input, pending) ==
    LET lower == str_lower(user_input)
    IN  IF user_input = "" THEN "empty"
        ELSE IF lower \in {"/curator on", "curator on"} THEN "curator_on"
        ELSE IF lower \in {"/curator off", "curator off"} THEN "curator_off"
        ELSE IF lower \in {"/enricher on", "enricher on"} THEN "enricher_on"
        ELSE IF lower \in {"/enricher off", "enricher off"} THEN "enricher_off"
        ELSE IF /\ pending # <<>>
                /\ ~str_startswith(lower, "/kg")
                /\ interpret_conflict_choice(user_input) # "None" THEN "resolve"
        ELSE IF str_startswith(lower, "/kg") THEN "kg"
        ELSE IF lower \in {"exit", "quit", "/exit", "/quit"} THEN "exit"
        ELSE "chat"

\* the routing, the Curator results and the builders' results over the model's
\* inputs, computed once
Route == [line \in Inputs |-> [has_pending \in BOOLEAN |->
            Dispatch(str_strip(line), IF has_pending THEN <<"pending">> ELSE <<>>)]]
Choice == [line \in Inputs |-> interpret_conflict_choice(str_strip(line))]
CuratorResult == [c \in 1..Len(CuratorReplies) |-> run_curator(CuratorReplies[c])]
Built == [e \in 1..Len(EnricherReplies) |->
            build_triplets_from_enricher(run_enricher(EnricherReplies[e]), UserCanonicalId)]
Fallback == [c \in 1..Len(CuratorReplies) |->
            FallbackTriplets(CuratorResult[c].candidates, UserCanonicalId)]

RouteOf(line) == Route[line][pending_conflict # <<>>]

Idle == running /\ triplets = <<>>

Did(route, line, choice) ==
    [route |-> route, input |-> line, choice |-> choice, skipped |-> FALSE]

Init ==
    /\ store = <<>>
    /\ pending_conflict = <<>>
    /\ show_curator = TRUE
    /\ show_enricher = TRUE
    /\ running = TRUE
    /\ triplets = <<>>
    /\ timestamp = 0
    /\ clock = 0
    /\ last = Did("start", "", "None")
    /\ superseded = <<>>
    /\ both_kept = {}
    /\ fn_args = <<>>
    /\ fn_result = <<>>

\* the loop is left: the process and its locals are gone, the store stays
Leave ==
    /\ running' = FALSE
    /\ pending_conflict' = <<>>
    /\ show_curator' = TRUE
    /\ show_enricher' = TRUE
    /\ timestamp' = 0
    /\ superseded' = <<>>
    /\ UNCHANGED <<store, triplets, clock, both_kept, fnvars>>

\* input() raises EOFError or KeyboardInterrupt
EndOfInput ==
    /\ Idle
    /\ Leave
    /\ last' = Did("eof", "", "None")

EmptyLine(line) ==
    /\ Idle
    /\ RouteOf(line) = "empty"
    /\ last' = Did("empty", line, "None")
    /\ UNCHANGED <<store, pending_conflict, show_curator, show_enricher, running,
                   triplets, timestamp, clock>>
    /\ UNCHANGED <<superseded, both_kept, fnvars>>

ToggleCurator(line) ==
    /\ Idle
    /\ RouteOf(line) \in {"curator_on", "curator_off"}
    /\ show_curator' = (RouteOf(line) = "curator_on")
    /\ last' = Did("toggle", line, "None")
    /\ UNCHANGED <<store, pending_conflict, show_enricher, running,
                   triplets, timestamp, clock>>
    /\ UNCHANGED <<superseded, both_kept, fnvars>>

ToggleEnricher(line) ==
    /\ Idle
    /\ RouteOf(line) \in {"enricher_on", "enricher_off"}
    /\ show_enricher' = (RouteOf(line) = "enricher_on")
    /\ last' = Did("toggle", line, "None")
    /\ UNCHANGED <<store, pending_conflict, show_curator, running,
                   triplets, timestamp, clock>>
    /\ UNCHANGED <<superseded, both_kept, fnvars>>

\* a resolution that leaves the record pending
ResolveConflict_mutant_keep(line) ==
    /\ Idle
    /\ RouteOf(line) = "resolve"
    /\ store' = apply_conflict_resolution(store, Choice[line], pending_conflict[1])
    /\ last' = Did("resolve", line, Choice[line])
    /\ both_kept' = IF Choice[line] = "B"
                    THEN both_kept \cup {<<pending_conflict[1].subj, pending_conflict[1].rel>>}
                    ELSE both_kept
    /\ UNCHANGED <<pending_conflict, show_curator, show_enricher, running, triplets,
                   timestamp, clock, superseded, fnvars>>

ResolveConflict(line) ==
    /\ Idle
    /\ RouteOf(line) = "resolve"
    /\ store' = apply_conflict_resolution(store, Choice[line], pending_conflict[1])
    /\ pending_conflict' = <<>>
    /\ last' = Did("resolve", line, Choice[line])
    /\ both_kept' = IF Choice[line] = "B"
                    THEN both_kept \cup {<<pending_conflict[1].subj, pending_conflict[1].rel>>}
                    ELSE both_kept
    /\ UNCHANGED <<show_curator, show_enricher, running, triplets, timestamp, clock,
                   superseded, fnvars>>

\* the store as the graph holds it: every timestamp is the string
\* make_timestamp() gave in the turn that wrote the fact
StampedStore(st) ==
    [i \in 1..Len(st) |->
        [st[i] EXCEPT !.timestamp =
            make_timestamp(Datetime(st[i].timestamp, 0, 0, FALSE), "+00:00")]]

\* handle_kg_command reaches run_kg_qa and run_kg_qa raises
KgRaises(st, user_input) ==
    /\ KgSubcommand(user_input) = "question"
    /\ run_kg_qa(StampedStore(st), str_strip(SubSeq(user_input, 4, Len(user_input))),
                 Datetime(clock, 0, 0, FALSE), QaMaxRecords).raised

\* the exception of run_kg_qa leaves handle_kg_command and main uncaught
KgCommandRaises(line) ==
    /\ Idle
    /\ RouteOf(line) = "kg"
    /\ KgRaises(store, str_strip(line))
    /\ Leave
    /\ last' = Did("raise", line, "None")

KgCommand(line) ==
    /\ Idle
    /\ RouteOf(line) = "kg"
    /\ ~KgRaises(store, str_strip(line))
    /\ store' = handle_kg_command(store, str_strip(line))
    /\ last' = Did("kg", line, "None")
    /\ UNCHANGED <<pending_conflict, show_curator, show_enricher, running,
                   triplets, timestamp, clock>>
    /\ UNCHANGED <<superseded, both_kept, fnvars>>

Exit(line) ==
    /\ Idle
    /\ RouteOf(line) = "exit"
    /\ Leave
    /\ last' = Did("exit", line, "None")

\* the facts of a turn: the Enricher-based builder, else the Curator candidates flat
TurnTriplets(c, e) == IF Built[e] # <<>> THEN Built[e] ELSE Fallback[c]

\* a turn that ends the loop when the Curator has nothing to remember
ConverseNothing_mutant_stop(line) ==
    /\ Idle
    /\ RouteOf(line) = "chat"
    /\ \E c \in 1..Len(CuratorReplies) : CuratorResult[c].candidates = <<>>
    /\ Leave
    /\ last' = Did("chat", line, "None")

\* chat response, Curator, nothing to remember
ConverseNothing(line) ==
    /\ Idle
    /\ RouteOf(line) = "chat"
    /\ \E c \in 1..Len(CuratorReplies) : CuratorResult[c].candidates = <<>>
    /\ last' = Did("chat", line, "None")
    /\ UNCHANGED <<store, pending_conflict, show_curator, show_enricher, running,
                   triplets, timestamp, clock>>
    /\ UNCHANGED <<superseded, both_kept, fnvars>>

\* chat response, Curator, Enricher, make_timestamp(), the turn's facts; every
\* such turn falls in a second of its own (it waits for three model calls)
Converse(line) ==
    /\ Idle
    /\ RouteOf(line) = "chat"
    /\ clock < MaxTime
    /\ \E c \in 1..Len(CuratorReplies), e \in 1..Len(EnricherReplies) :
            /\ CuratorResult[c].candidates # <<>>
            /\ triplets' = TurnTriplets(c, e)
    /\ timestamp' = clock + 1
    /\ clock' = timestamp'
    /\ last' = Did("chat", line, "None")
    /\ UNCHANGED <<store, pending_conflict, show_curator, show_enricher, running>>
    /\ UNCHANGED <<superseded, both_kept, fnvars>>

\* a round that stamps the fact it found stored with the turn's timestamp
SkipExisting_mutant_restamp ==
    /\ running /\ triplets # <<>>
    /\ LET t == Head(triplets)
       IN  /\ triplet_exists(store, t.subj, t.rel, t.obj)
           /\ store' = [i \in 1..Len(store) |->
                            IF /\ store[i].subj = t.subj /\ store[i].rel = t.rel
                               /\ store[i].obj = t.obj
                            THEN [store[i] EXCEPT !.timestamp = timestamp]
                            ELSE store[i]]
    /\ triplets' = Tail(triplets)
    /\ last' = [last EXCEPT !.skipped = TRUE]
    /\ UNCHANGED <<pending_conflict, show_curator, show_enricher, running,
                   timestamp, clock, superseded, both_kept, fnvars>>

\* one round of  for t in triplets:  with triplet_exists true: continue
SkipExisting ==
    /\ running /\ triplets # <<>>
    /\ LET t == Head(triplets)
       IN  triplet_exists(store, t.subj, t.rel, t.obj)
    /\ triplets' = Tail(triplets)
    /\ last' = [last EXCEPT !.skipped = TRUE]
    /\ UNCHANGED <<store, pending_conflict, show_curator, show_enricher, running,
                   timestamp, clock, superseded, both_kept, fnvars>>

\* a round that does not write a fact it found a conflict for
StoreTriplet_mutant_no_write ==
    /\ running /\ triplets # <<>>
    /\ LET t == Head(triplets)
           conflicts == detect_conflicts(store, t.subj, t.rel, t.obj)
       IN  /\ ~triplet_exists(store, t.subj, t.rel, t.obj)
           /\ store' = IF conflicts # <<>> THEN store
                       ELSE add_triplet(store, t.subj, t.obj, t.rel, timestamp)
           /\ pending_conflict' =
                IF conflicts # <<>>
                THEN <<[subj |-> t.subj, rel |-> t.rel, new_obj |-> t.obj,
                        new_ts |-> timestamp, old |-> conflicts]>>
                ELSE pending_conflict
           /\ superseded' = IF conflicts # <<>> THEN pending_conflict ELSE superseded
    /\ triplets' = Tail(triplets)
    /\ UNCHANGED <<show_curator, show_enricher, running, timestamp, clock, last,
                   both_kept, fnvars>>

\* a round that keeps the record already pending
StoreTriplet_mutant_keep_first ==
    /\ running /\ triplets # <<>>
    /\ LET t == Head(triplets)
           conflicts == detect_conflicts(store, t.subj, t.rel, t.obj)
       IN  /\ ~triplet_exists(store, t.subj, t.rel, t.obj)
           /\ store' = add_triplet(store, t.subj, t.obj, t.rel, timestamp)
           /\ pending_conflict' =
                IF conflicts # <<>> /\ pending_conflict = <<>>
                THEN <<[subj |-> t.subj, rel |-> t.rel, new_obj |-> t.obj,
                        new_ts |-> timestamp, old |-> conflicts]>>
                ELSE pending_conflict
           /\ superseded' = IF conflicts # <<>> THEN pending_conflict ELSE superseded
    /\ triplets' = Tail(triplets)
    /\ UNCHANGED <<show_curator, show_enricher, running, timestamp, clock, last,
                   both_kept, fnvars>>

\* one round of  for t in triplets:  detect conflicts, write, raise the conflict
StoreTriplet ==
    /\ running /\ triplets # <<>>
    /\ LET t == Head(triplets)
           conflicts == detect_conflicts(store, t.subj, t.rel, t.obj)
       IN  /\ ~triplet_exists(store, t.subj, t.rel, t.obj)
           /\ store' = add_triplet(store, t.subj, t.obj, t.rel, timestamp)
           /\ pending_conflict' =
                IF conflicts # <<>>
                THEN <<[subj |-> t.subj, rel |-> t.rel, new_obj |-> t.obj,
                        new_ts |-> timestamp, old |-> conflicts]>>
                ELSE pending_conflict
           /\ superseded' = IF conflicts # <<>> THEN pending_conflict ELSE superseded
    /\ triplets' = Tail(triplets)
    /\ UNCHANGED <<show_curator, show_enricher, running, timestamp, clock, last,
                   both_kept, fnvars>>

Next ==
    \/ EndOfInput
    \/ \E line \in Inputs : EmptyLine(line)
    \/ \E line \in Inputs : ToggleCurator(line)
    \/ \E line \in Inputs : ToggleEnricher(line)
    \/ \E line \in Inputs : ResolveConflict(line)
    \/ \E line \in Inputs : KgCommand(line)
    \/ \E line \in Inputs : KgCommandRaises(line)
    \/ \E line \in Inputs : Exit(line)
    \/ \E line \in Inputs : ConverseNothing(line)
    \/ \E line \in Inputs : Converse(line)
    \/ SkipExisting
    \/ StoreTriplet

Spec == Init /\ [][Next]_vars

(***************************************************************************)
(* detect_conflicts applied on its own: a store and a new fact are drawn,  *)
(* relation labels in either case.                                         *)
(***************************************************************************)
\* the drawn store holds at most DetectMaxStore edges
DetectMaxStore == 2

DetectFacts ==
    {Triplet(subj, rel, obj) :
        subj \in {"User", "Bob"},
        rel \in {"LIVES_IN", "lives_in", "LIKES"},
        obj \in {"Melbourne", "Sydney"}}

DetectEdges == {Edge(f.subj, f.rel, f.obj, 1, "none") : f \in DetectFacts}

DetectStores ==
    UNION {[1..n -> DetectEdges] : n \in 0..DetectMaxStore}

ReplaceAt(st, i, e) == [k \in 1..Len(st) |-> IF k = i THEN e ELSE st[k]]

InitDetect ==
    /\ store \in DetectStores
    /\ fn_args \in {<<f>> : f \in DetectFacts}
    /\ fn_result = <<>>
    /\ pending_conflict = <<>>
    /\ show_curator = TRUE
    /\ show_enricher = TRUE
    /\ running = FALSE
    /\ triplets = <<>>
    /\ timestamp = 0
    /\ clock = 0
    /\ last = Did("start", "", "None")
    /\ superseded = <<>>
    /\ both_kept = {}

\* the new fact checked against the store, and every stored fact checked as the
\* new one against the store holding the new fact in its place
DetectApply ==
    /\ fn_result = <<>>
    /\ LET f == fn_args[1]
       IN  fn_result' =
             <<[found |-> detect_conflicts(store, f.subj, f.rel, f.obj),
                swapped |-> [i \in 1..Len(store) |->
                    detect_conflicts(
                        ReplaceAt(store, i, Edge(f.subj, f.rel, f.obj, 2, "none")),
                        store[i].subj, store[i].rel, store[i].obj)]]>>
    /\ UNCHANGED <<store, pending_conflict, show_curator, show_enricher, running,
                   triplets, timestamp, clock, last, superseded, both_kept, fn_args>>

NextDetect == DetectApply

SpecDetect == InitDetect /\ [][NextDetect]_vars

(***************************************************************************)
(* Properties.                                                             *)
(***************************************************************************)
Range(seq) == {seq[i] : i \in 1..Len(seq)}

SameIgnoringCase(a, b) == str_upper(a) = str_upper(b)

\* C1: for a new fact (s, r, o) with r in the single-valued set, detect_conflicts
\* reports exactly the stored facts with subject s, relation r ignoring case and
\* an object other than o; and of two facts with the same subject, the same
\* single-valued relation and different objects, each is reported when the other
\* is the new fact.
C1_DetectExactSymmetric ==
    fn_result # <<>> =>
        LET f == fn_args[1]
            found == fn_result[1].found
            swapped == fn_result[1].swapped
        IN  f.rel \in SINGLE_VALUED_RELATIONS =>
              /\ Range(found) \subseteq Range(get_all_triplets(store))
              /\ \A i \in 1..Len(store) :
                    TripletDict(store[i]) \in Range(found)
                    <=> /\ store[i].subj = f.subj
                        /\ SameIgnoringCase(store[i].rel, f.rel)
                        /\ store[i].obj # f.obj
              /\ \A i \in 1..Len(store) :
                    (/\ store[i].subj = f.subj
                     /\ store[i].rel = f.rel
                     /\ store[i].obj # f.obj)
                    => /\ TripletDict(store[i]) \in Range(found)
                       /\ [subj |-> f.subj, rel |-> f.rel, obj |-> f.obj, timestamp |-> 2]
                            \in Range(swapped[i])

C1_Witness ==
    /\ fn_result # <<>>
    /\ fn_args[1].rel = "LIVES_IN"
    /\ Len(fn_result[1].found) = 2
    /\ \E i \in 1..Len(store) :
          /\ store[i].rel = "lives_in"
          /\ TripletDict(store[i]) \in Range(fn_result[1].found)
    /\ \E i \in 1..Len(store) :
          /\ store[i].rel = "LIVES_IN"
          /\ fn_result[1].swapped[i] # <<>>

\* the prior facts that differ from fact t: same subject, same relation, other object
DifferingPrior(st, t) ==
    SelectSeq(get_all_triplets(st), LAMBDA x :
        x.subj = t.subj /\ x.rel = t.rel /\ x.obj # t.obj)

HasFact(st, t) ==
    \E i \in 1..Len(st) : st[i].subj = t.subj /\ st[i].rel = t.rel /\ st[i].obj = t.obj

\* C2: when the loop comes to a new fact that conflicts with stored facts, the
\* fact is written all the same, every fact stored before is left as it was, and
\* the record raised holds all the differing facts found before the write.
C2_ConflictedFactWritten ==
    [][ (/\ running /\ triplets # <<>>
         /\ ~HasFact(store, Head(triplets))
         /\ Head(triplets).rel \in SINGLE_VALUED_RELATIONS
         /\ DifferingPrior(store, Head(triplets)) # <<>>)
        => LET t == Head(triplets)
           IN  /\ Len(store') = Len(store) + 1
               /\ SubSeq(store', 1, Len(store)) = store
               /\ TripletDict(store'[Len(store')]) =
                    [subj |-> t.subj, rel |-> t.rel, obj |-> t.obj,
                     timestamp |-> timestamp]
               /\ pending_conflict' =
                    <<[subj |-> t.subj, rel |-> t.rel, new_obj |-> t.obj,
                       new_ts |-> timestamp, old |-> DifferingPrior(store, t)]>>
      ]_vars

C2_Witness ==
    /\ pending_conflict # <<>>
    /\ store # <<>>
    /\ LET c == pending_conflict[1]
           e == store[Len(store)]
       IN  /\ e.subj = c.subj /\ e.rel = c.rel /\ e.obj = c.new_obj
           /\ e.timestamp = c.new_ts
           /\ Len(c.old) = 2
           /\ \A k \in 1..Len(c.old) :
                \E i \in 1..(Len(store) - 1) : TripletDict(store[i]) = c.old[k]

\* the facts a record names
IsOldOf(e, c) == TripletDict(e) \in Range(c.old)
IsNewOf(e, c) ==
    TripletDict(e) =
        [subj |-> c.subj, rel |-> c.rel, obj |-> c.new_obj, timestamp |-> c.new_ts]

\* a step of the loop that resolves the pending conflict with the given choice
ResolvedWith(choice) ==
    /\ Idle
    /\ pending_conflict # <<>>
    /\ pending_conflict' = <<>>
    /\ last'.route = "resolve"
    /\ last'.choice = choice

\* C3: choice A sets status past on every stored fact of the record's old list
\* and status current on the record's new fact.
C3_ChoiceAOldPastNewCurrent ==
    [][ ResolvedWith("A")
        => /\ Len(store') = Len(store)
           /\ \A i \in 1..Len(store) :
                /\ TripletDict(store'[i]) = TripletDict(store[i])
                /\ IsOldOf(store[i], pending_conflict[1]) => store'[i].status = "past"
                /\ IsNewOf(store[i], pending_conflict[1]) => store'[i].status = "current"
      ]_vars

C3_Witness ==
    /\ last.route = "resolve" /\ last.choice = "A"
    /\ Len(store) = 2
    /\ \E i, j \in 1..Len(store) :
          /\ store[i].rel = "LIVES_IN" /\ store[i].obj = "Melbourne"
          /\ store[i].status = "past"
          /\ store[j].rel = "LIVES_IN" /\ store[j].obj = "Sydney"
          /\ store[j].status = "current"
          /\ store[i].timestamp < store[j].timestamp

\* C4: choice C deletes exactly the record's new fact; every other fact, the
\* old facts of the record among them, stays stored with its status unchanged.
C4_ChoiceCDeletesNewOnly ==
    [][ ResolvedWith("C")
        => /\ store' = SelectSeq(store, LAMBDA e : ~IsNewOf(e, pending_conflict[1]))
           /\ \A i \in 1..Len(store) :
                IsOldOf(store[i], pending_conflict[1]) => store[i] \in Range(store')
      ]_vars

C4_Witness ==
    /\ last.route = "resolve" /\ last.choice = "C"
    /\ Len(store) = 1
    /\ store[1].rel = "LIVES_IN" /\ store[1].obj = "Melbourne"
    /\ store[1].status = "none"
    /\ clock = 2

\* C5: choice B sets status current on every stored fact of the record's old
\* list and on the record's new fact, and deletes nothing.
C5_ChoiceBAllCurrent ==
    [][ ResolvedWith("B")
        => /\ Len(store') = Len(store)
           /\ \A i \in 1..Len(store) :
                /\ TripletDict(store'[i]) = TripletDict(store[i])
                /\ (IsOldOf(store[i], pending_conflict[1])
                    \/ IsNewOf(store[i], pending_conflict[1]))
                   => store'[i].status = "current"
      ]_vars

C5_Witness ==
    /\ last.route = "resolve" /\ last.choice = "B"
    /\ \E i, j \in 1..Len(store) :
          /\ i < j
          /\ store[i].subj = store[j].subj /\ store[i].rel = store[j].rel
          /\ store[i].rel \in SINGLE_VALUED_RELATIONS
          /\ store[i].status = "current" /\ store[j].status = "current"

\* a step in which the loop reads a line (the line is last'.input)
ReadsLine == Idle /\ last'.route \notin {"eof", "start"}

FactsOf(st) == {TripletDict(st[i]) : i \in 1..Len(st)}

\* C7: while a conflict is pending, a reply recognized as A, B or C applies
\* that resolution once and leaves no conflict pending; the reply reaches neither
\* the chat model nor the extraction pipeline and stores no new fact.
C7_RecognizedReplyResolves ==
    [][ (/\ ReadsLine
         /\ pending_conflict # <<>>
         /\ ~str_startswith(str_lower(str_strip(last'.input)), "/kg")
         /\ Choice[last'.input] # "None")
        => /\ last'.route = "resolve"
           /\ last'.choice = Choice[last'.input]
           /\ store' = apply_conflict_resolution(store, Choice[last'.input],
                                                 pending_conflict[1])
           /\ pending_conflict' = <<>>
           /\ triplets' = <<>>
           /\ clock' = clock
           /\ FactsOf(store') \subseteq FactsOf(store)
      ]_vars

C7_Witness ==
    /\ last.route = "resolve"
    /\ last.choice \in {"A", "B", "C"}
    /\ pending_conflict = <<>>
    /\ triplets = <<>>
    /\ store # <<>>

\* a fact named by a record, old or new
IsOfRecord(e, c) == IsOldOf(e, c) \/ IsNewOf(e, c)

\* C8: at most one record is pending; a conflict raised while another is
\* pending replaces it; a resolution then leaves every fact of the replaced
\* record that the newer record does not name as it was.
C8_LaterConflictReplaces ==
    [][ /\ Len(pending_conflict') <= 1
        /\ (/\ running /\ triplets # <<>>
            /\ pending_conflict # <<>>
            /\ ~HasFact(store, Head(triplets))
            /\ Head(triplets).rel \in SINGLE_VALUED_RELATIONS
            /\ DifferingPrior(store, Head(triplets)) # <<>>)
           => /\ Len(pending_conflict') = 1
              /\ pending_conflict'[1].new_obj = Head(triplets).obj
              /\ pending_conflict'[1].rel = Head(triplets).rel
              /\ pending_conflict'[1].new_ts = timestamp
              /\ pending_conflict' # pending_conflict
              /\ superseded' = pending_conflict
        /\ (ReadsLine /\ last'.route = "resolve" /\ superseded # <<>>)
           => \A i \in 1..Len(store) :
                (/\ IsOfRecord(store[i], superseded[1])
                 /\ ~IsOfRecord(store[i], pending_conflict[1]))
                => store[i] \in Range(store')
      ]_vars

C8_Witness ==
    /\ last.route = "resolve" /\ last.choice = "A"
    /\ superseded # <<>>
    /\ superseded[1].rel = "LIVES_IN"
    /\ \E i \in 1..Len(store) :
          /\ IsNewOf(store[i], superseded[1])
          /\ store[i].status = "none"
    /\ \E i \in 1..Len(store) :
          /\ IsOldOf(store[i], superseded[1])
          /\ store[i].status = "none"
    /\ \E i \in 1..Len(store) :
          /\ store[i].rel = "WORKS_AT" /\ store[i].status = "current"

CurrentOf(subj, rel) ==
    {i \in 1..Len(store) :
        store[i].subj = subj /\ store[i].rel = rel /\ store[i].status = "current"}

\* C9 as stated: for every subject and every single-valued relation at most one
\* stored fact has status current.
C9_Original ==
    \A i \in 1..Len(store) :
        store[i].rel \in SINGLE_VALUED_RELATIONS
        => Cardinality(CurrentOf(store[i].subj, store[i].rel)) <= 1

\* C9 as amended: the same for every subject and single-valued relation no
\* conflict of which was resolved with choice B.
C9_OneCurrentUnlessBothKept ==
    \A i \in 1..Len(store) :
        (/\ store[i].rel \in SINGLE_VALUED_RELATIONS
         /\ <<store[i].subj, store[i].rel>> \notin both_kept)
        => Cardinality(CurrentOf(store[i].subj, store[i].rel)) <= 1

C9_Witness ==
    /\ both_kept = {}
    /\ \E i, j, k \in 1..Len(store) :
          /\ Cardinality({i, j, k}) = 3
          /\ store[i].subj = store[j].subj /\ store[i].rel = store[j].rel
          /\ store[i].subj = store[k].subj /\ store[i].rel = store[k].rel
          /\ store[i].rel \in SINGLE_VALUED_RELATIONS
          /\ store[i].status = "past"
          /\ store[j].status = "past"
          /\ store[k].status = "current"

\* C10: the store never holds two facts with the same subject, relation and
\* object; a fact of a turn that is already stored is skipped, not inserted.
C10_NoDuplicateFacts ==
    /\ \A i, j \in 1..Len(store) :
          (/\ store[i].subj = store[j].subj
           /\ store[i].rel = store[j].rel
           /\ store[i].obj = store[j].obj) => i = j
    /\ last.skipped => \A i \in 1..Len(store) : store[i].timestamp <= timestamp

C10_Witness ==
    /\ last.skipped
    /\ triplets = <<>>
    /\ store # <<>>
    /\ \A i \in 1..Len(store) : store[i].timestamp < timestamp

\* C11: a round of the store loop whose fact is not stored yet and whose relation
\* is not single-valued writes the fact and leaves the pending record, if any,
\* as it was, whatever facts are stored for the subject.
C11_MultiValuedNeverConflicts ==
    [][ (/\ running /\ triplets # <<>>
         /\ ~HasFact(store, Head(triplets))
         /\ Head(triplets).rel \notin SINGLE_VALUED_RELATIONS)
        => /\ store' = Append(store, Edge(Head(triplets).subj, Head(triplets).rel,
                                          Head(triplets).obj, timestamp, "none"))
           /\ pending_conflict' = pending_conflict
      ]_vars

C11_Witness ==
    /\ pending_conflict # <<>>
    /\ pending_conflict[1].rel = "LIVES_IN"
    /\ Len(store) >= 2
    /\ LET e == store[Len(store)]
       IN  /\ e.rel = "LIKES"
           /\ pending_conflict[1].new_ts < e.timestamp
           /\ \E i \in 1..(Len(store) - 1) :
                 /\ store[i].subj = e.subj /\ store[i].rel = e.rel
                 /\ store[i].obj # e.obj

(***************************************************************************)
(* interpret_conflict_choice applied on its own to a drawn reply.          *)
(***************************************************************************)
ChoiceReplies ==
    {prefix \o body \o suffix :
        prefix \in {"", " ", "a ", "B ", "c ", "option "},
        body \in {"", "a", "b", "c", "A", "Option B", "x", "hello",
                  "outdated", "OUTDATED", "new fact is correct", "both", "both true",
                  "keep the old", "wrong", "incorrect", "both wrong",
                  "wrong and outdated", "keep the old, both"},
        suffix \in {"", " ", " ok"}}

\* the session's variables at rest, the function's argument drawn from args
InitFn(args) ==
    /\ fn_args \in {<<a>> : a \in args}
    /\ fn_result = <<>>
    /\ store = <<>>
    /\ pending_conflict = <<>>
    /\ show_curator = TRUE
    /\ show_enricher = TRUE
    /\ running = FALSE
    /\ triplets = <<>>
    /\ timestamp = 0
    /\ clock = 0
    /\ last = Did("start", "", "None")
    /\ superseded = <<>>
    /\ both_kept = {}

InitChoice == InitFn(ChoiceReplies)

ChoiceApply ==
    /\ fn_result = <<>>
    /\ fn_result' = <<interpret_conflict_choice(fn_args[1])>>
    /\ UNCHANGED <<store, pending_conflict, show_curator, show_enricher, running,
                   triplets, timestamp, clock, last, superseded, both_kept, fn_args>>

NextChoice == ChoiceApply

SpecChoice == InitChoice /\ [][NextChoice]_vars

\* the reply as the claims read it: trimmed, lower-cased
Trimmed(reply) == str_lower(str_strip(reply))

SaysA(t) ==
    t \in {"a", "option a"} \/ str_contains(t, "outdated")
    \/ str_contains(t, "new fact is correct")
SaysB(t) == t \in {"b", "option b"} \/ str_contains(t, "both")
SaysC(t) ==
    t \in {"c", "option c"} \/ str_contains(t, "keep the old")
    \/ str_contains(t, "wrong") \/ str_contains(t, "incorrect")
LeadingLetter(t) ==
    IF str_startswith(t, "a ") THEN "A"
    ELSE IF str_startswith(t, "b ") THEN "B"
    ELSE IF str_startswith(t, "c ") THEN "C"
    ELSE "None"

\* C12 as stated: a reply is mapped to A when it is a, option a or contains
\* outdated or new fact is correct, to B when it is b, option b or contains
\* both, to C when it is c, option c or contains keep the old, wrong or
\* incorrect, and to no choice when it matches none of these and has no leading
\* letter form.
C12_Original ==
    fn_result # <<>> =>
        LET t == Trimmed(fn_args[1])
        IN  /\ SaysA(t) => fn_result[1] = "A"
            /\ SaysB(t) => fn_result[1] = "B"
            /\ SaysC(t) => fn_result[1] = "C"
            /\ (~SaysA(t) /\ ~SaysB(t) /\ ~SaysC(t) /\ LeadingLetter(t) = "None")
               => fn_result[1] = "None"

\* C12 as amended: the three groups are tried in the order A, B, C and the
\* first group that matches gives the choice; a reply matching no group and
\* having no leading letter form is mapped to no choice.
C12_FirstMatchingGroup ==
    fn_result # <<>> =>
        LET t == Trimmed(fn_args[1])
        IN  /\ fn_result[1] \in {"A", "B", "C", "None"}
            /\ SaysA(t) => fn_result[1] = "A"
            /\ (~SaysA(t) /\ SaysB(t)) => fn_result[1] = "B"
            /\ (~SaysA(t) /\ ~SaysB(t) /\ SaysC(t)) => fn_result[1] = "C"
            /\ (~SaysA(t) /\ ~SaysB(t) /\ ~SaysC(t) /\ LeadingLetter(t) = "None")
               => fn_result[1] = "None"

C12_Witness ==
    /\ fn_result = <<"B">>
    /\ fn_args[1] # Trimmed(fn_args[1])
    /\ str_contains(Trimmed(fn_args[1]), "both")
    /\ str_contains(Trimmed(fn_args[1]), "wrong")

\* C13 as stated: every reply whose trimmed, lower-cased text begins with
\* "a ", "b " or "c " is interpreted as the choice of that letter.
C13_Original ==
    fn_result # <<>> =>
        (LeadingLetter(Trimmed(fn_args[1])) # "None"
         => fn_result[1] = LeadingLetter(Trimmed(fn_args[1])))

\* C13 as amended: the same for every such reply that is matched by none of
\* the three groups of letters, phrases and keywords.
C13_LeadingLetterWhenNoKeyword ==
    fn_result # <<>> =>
        LET t == Trimmed(fn_args[1])
        IN  (LeadingLetter(t) # "None" /\ ~SaysA(t) /\ ~SaysB(t) /\ ~SaysC(t))
            => fn_result[1] = LeadingLetter(t)

C13_Witness ==
    /\ fn_result = <<"B">>
    /\ str_startswith(fn_args[1], "B ")
    /\ ~SaysB(Trimmed(fn_args[1]))

(***************************************************************************)
(* One conversational turn on its own: the two model replies are drawn,    *)
(* the turn's facts are built as main.py 184-216 builds them and the store *)
(* loop writes them to an empty store.                                     *)
(***************************************************************************)
\* extract.is_garbage_node
is_garbage_node(x) ==
    IF x = "" THEN TRUE
    ELSE str_upper(str_strip(x)) \in
            {"OBJECT", "THING", "SOMETHING", "SOMEONE", "UNKNOWN", "NONE", "NULL",
             "NODE", "ITEM"}

\* the turn without  if not triplets:  nothing is stored flat
PipelineTriplets_mutant_no_fallback(curator_reply, enricher_reply) ==
    LET candidates == run_curator(curator_reply).candidates
        built == build_triplets_from_enricher(run_enricher(enricher_reply),
                                              UserCanonicalId)
    IN  IF candidates = <<>> THEN <<>> ELSE built

\* the facts of a turn from the two replies: <<>> when the Curator has no
\* candidates, else the Enricher-based builder, else the candidates flat
PipelineTriplets(curator_reply, enricher_reply) ==
    LET candidates == run_curator(curator_reply).candidates
        built == build_triplets_from_enricher(run_enricher(enricher_reply),
                                              UserCanonicalId)
    IN  IF candidates = <<>> THEN <<>>
        ELSE IF built # <<>> THEN built
        ELSE FallbackTriplets(candidates, UserCanonicalId)

\* an Enricher reply of the drawn turn lists at most BuildMaxRelations relations
BuildMaxRelations == 2

BuildRelations ==
    {Rel("USER", "knows", "User"),
     Rel("Bob", "knows", "Bob"),
     Rel("USER", "likes", "tea"),
     Rel("USER", "likes", "OBJECT"),
     Rel("USER", "has", " unknown "),
     Rel("USER", "LIVES_IN", "Melbourne, Australia"),
     Rel("USER", "DEGREE", "PhD"),
     Rel("USER", "RESEARCH_AREA", "AI"),
     Rel("USER", "HAS_FIELD", "multi-agent systems")}

BuildEnricherReplies ==
    {[json |-> FALSE, entities |-> <<>>, relations |-> <<>>]}
    \cup {[json |-> TRUE, entities |-> <<>>, relations |-> rs] :
            rs \in UNION {[1..n -> BuildRelations] : n \in 0..BuildMaxRelations}}

BuildCuratorReplies ==
    {[json |-> FALSE, candidates |-> <<>>],
     [json |-> TRUE, candidates |-> <<Rel("USER", "likes", "tea")>>],
     [json |-> TRUE, candidates |->
        <<Rel("USER", "likes", "tea"), Rel("USER", "likes", "tea")>>],
     [json |-> TRUE, candidates |-> <<Rel("USER", "knows", "User")>>],
     [json |-> TRUE, candidates |-> <<Rel("USER", "likes", "unknown")>>],
     [json |-> TRUE, candidates |-> <<Rel("USER", "FROM", "Melbourne, Australia")>>],
     [json |-> TRUE, candidates |->
        <<Rel("user", "lives in", "Melbourne"), Rel("Bob", "likes", "tea"),
          Rel("USER", "LIVES_IN", "Sydney")>>]}

InitBuild ==
    /\ fn_args \in BuildCuratorReplies \X BuildEnricherReplies
    /\ fn_result = <<>>
    /\ store = <<>>
    /\ pending_conflict = <<>>
    /\ show_curator = TRUE
    /\ show_enricher = TRUE
    /\ running = TRUE
    /\ triplets = <<>>
    /\ timestamp = 0
    /\ clock = 0
    /\ last = Did("start", "", "None")
    /\ superseded = <<>>
    /\ both_kept = {}

\* the turn up to  if not curator_result.candidates: continue
BuildNothing ==
    /\ Idle /\ fn_result = <<>>
    /\ run_curator(fn_args[1]).candidates = <<>>
    /\ fn_result' = <<<<>>>>
    /\ last' = Did("chat", "hello", "None")
    /\ UNCHANGED <<store, pending_conflict, show_curator, show_enricher, running,
                   triplets, timestamp, clock, superseded, both_kept, fn_args>>

\* the turn up to the store loop
BuildTurn ==
    /\ Idle /\ fn_result = <<>>
    /\ run_curator(fn_args[1]).candidates # <<>>
    /\ triplets' = PipelineTriplets(fn_args[1], fn_args[2])
    /\ fn_result' = <<triplets'>>
    /\ timestamp' = clock + 1
    /\ clock' = timestamp'
    /\ last' = Did("chat", "hello", "None")
    /\ UNCHANGED <<store, pending_conflict, show_curator, show_enricher, running,
                   superseded, both_kept, fn_args>>

NextBuild == BuildNothing \/ BuildTurn \/ SkipExisting \/ StoreTriplet

SpecBuild == InitBuild /\ [][NextBuild]_vars

\* C14: no stored fact has its subject equal to its object, whichever of the
\* two builders (the Enricher-based one, the flat Curator fallback) made it.
C14_NoSelfLoopStored ==
    \A i \in 1..Len(store) : store[i].subj # store[i].obj

\* C15: no stored fact has a garbage token (OBJECT, THING, SOMETHING, SOMEONE,
\* UNKNOWN, NONE, NULL, NODE, ITEM after trimming and upper-casing) as its
\* object, whatever its relation.
C15_NoGarbageObjectStored ==
    \A i \in 1..Len(store) : ~is_garbage_node(store[i].obj)

RECURSIVE CommaCount(_)
CommaCount(s) ==
    IF s = "" THEN 0
    ELSE (IF Char(s, 1) = "," THEN 1 ELSE 0) + CommaCount(Tail(s))

PlaceLikeRelations == {"LIVES_IN", "FROM", "HOMETOWN", "LOCATED_IN"}
DegreeLikeRelations == {"DEGREE", "PROGRAM"}
FieldLikeRelations == {"RESEARCH_AREA", "HAS_FIELD"}

\* the relations of the drawn Enricher reply, when the turn reaches the builder
BuilderInput ==
    IF fn_result # <<>> /\ run_curator(fn_args[1]).candidates # <<>>
    THEN run_enricher(fn_args[2]).relations
    ELSE <<>>

\* C16: the builder turns a single place-like relation whose object contains
\* exactly one comma into exactly two facts, subject -[relation]-> city and
\* city -[LOCATED_IN]-> country.
C16_PlaceObjectSplit ==
    (/\ Len(BuilderInput) = 1
     /\ normalize_relation(BuilderInput[1].rel) \in PlaceLikeRelations
     /\ CommaCount(BuilderInput[1].obj) = 1)
    => LET out == fn_result[1]
       IN  /\ Len(out) = 2
           /\ out[1].subj = norm(UserCanonicalId)
           /\ out[1].rel = normalize_relation(BuilderInput[1].rel)
           /\ out[2].subj = out[1].obj
           /\ out[2].rel = "LOCATED_IN"
           /\ CommaCount(out[1].obj) = 0

\* C17: when a degree-like relation is followed by a field-like relation of
\* the same subject, the builder emits subject -[HAS_PROGRAM]-> program and
\* program -[HAS_FIELD]-> field, and no field fact on the subject; with no
\* program yet, a field fact stays on the subject.
C17_FieldsAttachToProgram ==
    /\ (/\ Len(BuilderInput) = 2
        /\ normalize_relation(BuilderInput[1].rel) \in DegreeLikeRelations
        /\ normalize_relation(BuilderInput[2].rel) \in FieldLikeRelations
        /\ BuilderInput[1].subj = BuilderInput[2].subj)
       => LET out == fn_result[1]
          IN  /\ Len(out) = 2
              /\ out[1].subj = norm(UserCanonicalId)
              /\ out[1].rel = "HAS_PROGRAM"
              /\ out[2].subj = out[1].obj
              /\ out[2].rel = "HAS_FIELD"
    /\ (/\ Len(BuilderInput) = 1
        /\ normalize_relation(BuilderInput[1].rel) \in FieldLikeRelations)
       => /\ Len(fn_result[1]) = 1
          /\ fn_result[1][1].subj = norm(UserCanonicalId)

(***************************************************************************)
(* The canonicalizer applied on its own to a drawn string.                 *)
(***************************************************************************)
\* the drawn short strings have at most CanonMaxLen characters
CanonMaxLen == 3

CanonAlphabet == {"a", "B", "1", "_", " ", ","}

RECURSIVE Concat(_)
Concat(chars) == IF chars = <<>> THEN "" ELSE Head(chars) \o Concat(Tail(chars))

RECURSIVE Repeat(_, _)
Repeat(c, n) == IF n = 0 THEN "" ELSE c \o Repeat(c, n - 1)

\* short strings over the alphabet, strings around the 60-character cut, and
\* the surface forms of the examples
CanonInputs ==
    {Concat(cs) : cs \in UNION {[1..n -> CanonAlphabet] : n \in 0..CanonMaxLen}}
    \cup {head \o Repeat("x", n) :
            head \in {"", "1", "a", ",", "12", "1,"}, n \in 57..61}
    \cup {"Melbourne, Australia", "Melbourne Australia", "multi-agent systems",
          "livesIn", "LivesIn", "lives in", "top10movies", "  works  at  "}

InitCanon == InitFn(CanonInputs)

NormApply ==
    /\ fn_result = <<>>
    /\ fn_result' = <<[fn |-> "norm",
                       out |-> norm(fn_args[1]),
                       again |-> norm(norm(fn_args[1]))]>>
    /\ UNCHANGED <<store, pending_conflict, show_curator, show_enricher, running,
                   triplets, timestamp, clock, last, superseded, both_kept, fn_args>>

NormalizeRelationApply ==
    /\ fn_result = <<>>
    /\ fn_result' = <<[fn |-> "normalize_relation",
                       out |-> normalize_relation(fn_args[1]),
                       again |-> normalize_relation(normalize_relation(fn_args[1]))]>>
    /\ UNCHANGED <<store, pending_conflict, show_curator, show_enricher, running,
                   triplets, timestamp, clock, last, superseded, both_kept, fn_args>>

NextCanon == NormApply \/ NormalizeRelationApply

SpecCanon == InitCanon /\ [][NextCanon]_vars

Applied(fn) == fn_result # <<>> /\ fn_result[1].fn = fn

\* C18: norm(s) is non-empty, at most 60 characters long, made of letters,
\* digits and underscores only, does not start with a digit, and
\* norm(norm(s)) = norm(s).
C18_NormShapeIdempotent ==
    Applied("norm") =>
        LET out == fn_result[1].out
        IN  /\ out # ""
            /\ Len(out) <= 60
            /\ \A i \in 1..Len(out) : IsAlnumChar(Char(out, i)) \/ Char(out, i) = "_"
            /\ ~IsDigitChar(Char(out, 1))
            /\ fn_result[1].again = out

C18_Witness ==
    /\ Applied("norm")
    /\ Len(fn_args[1]) > 60
    /\ IsDigitChar(Char(fn_args[1], 1))
    /\ ~IsAlnumChar(Char(fn_args[1], 2))
    /\ Len(fn_result[1].out) = 60
    /\ SubSeq(fn_result[1].out, 1, 5) = "id_1_"

\* C19: normalize_relation(r) consists of upper-case letters, digits and
\* single underscores only, has no leading or trailing underscore, and
\* normalize_relation(normalize_relation(r)) = normalize_relation(r).
C19_RelationShapeIdempotent ==
    Applied("normalize_relation") =>
        LET out == fn_result[1].out
        IN  /\ \A i \in 1..Len(out) :
                  IsUpperChar(Char(out, i)) \/ IsDigitChar(Char(out, i))
                  \/ Char(out, i) = "_"
            /\ ~str_contains(out, "__")
            /\ out # ""
            /\ Char(out, 1) # "_" /\ Char(out, Len(out)) # "_"
            /\ fn_result[1].again = out

\* C20: norm(s) never contains two adjacent underscores: a run of
\* non-alphanumeric characters of s gives a single underscore.
C20_NormCollapsesRuns ==
    Applied("norm") => ~str_contains(fn_result[1].out, "__")

(***************************************************************************)
(* detect_time_window applied on its own to a drawn question and clock.    *)
(***************************************************************************)
\* the day word of a question, with the offset of its base date from today
WindowDayWords ==
    {[text |-> "", back |-> 0],
     [text |-> "Today ", back |-> 0],
     [text |-> "yesterday ", back |-> 1],
     [text |-> "today or Yesterday ", back |-> 1]}

\* the clock time of a question (none: hour = -1), with its hour and minute
\* on the 24-hour clock
WindowClockTimes ==
    {[text |-> "", hour |-> 0 - 1, minute |-> 0],
     [text |-> "at 3pm", hour |-> 15, minute |-> 0],
     [text |-> "at 11:30 PM", hour |-> 23, minute |-> 30],
     [text |-> "12 am", hour |-> 0, minute |-> 0],
     [text |-> "12:45 am", hour |-> 0, minute |-> 45],
     [text |-> "at 5.15  pm", hour |-> 17, minute |-> 15],
     [text |-> "12:00 pm", hour |-> 12, minute |-> 0],
     [text |-> "9:05am", hour |-> 9, minute |-> 5],
     [text |-> "at 1 am", hour |-> 1, minute |-> 0],
     [text |-> "10.59 pm", hour |-> 22, minute |-> 59]}

\* the day-part word of a question
WindowDayParts ==
    {[text |-> "", part |-> ""],
     [text |-> " in the morning", part |-> "morning"],
     [text |-> " Afternoon", part |-> "afternoon"],
     [text |-> " evening", part |-> "evening"],
     [text |-> " tonight", part |-> "night"]}

WindowNows ==
    {Datetime(10, 13 * SecondsPerHour, 500000, FALSE),
     Datetime(10, 0, 0, FALSE),
     Datetime(1, SecondsPerDay - 1, LastMicrosecond, FALSE)}

WindowCases ==
    {[question |-> d.text \o c.text \o p.text, now |-> n,
      back |-> d.back, hour |-> c.hour, minute |-> c.minute, part |-> p.part] :
        d \in WindowDayWords, c \in WindowClockTimes, p \in WindowDayParts,
        n \in WindowNows}
    \cup {[question |-> "what was I doing yesterday afternoon", now |-> n,
           back |-> 1, hour |-> 0 - 1, minute |-> 0, part |-> "afternoon"] :
            n \in WindowNows}

InitWindow == InitFn(WindowCases)

WindowApply ==
    /\ fn_result = <<>>
    /\ fn_result' = <<detect_time_window(fn_args[1].question, fn_args[1].now)>>
    /\ UNCHANGED <<store, pending_conflict, show_curator, show_enricher, running,
                   triplets, timestamp, clock, last, superseded, both_kept, fn_args>>

NextWindow == WindowApply

SpecWindow == InitWindow /\ [][NextWindow]_vars

\* C22: for a question with an explicit clock time t the window is
\* [t - 1h, t + 1h] on the base date (yesterday if the question says
\* yesterday, otherwise today), the start not before 00:00:00 and the end not
\* after 23:59:59.999999 of that date.
C22_ClockWindowClamped ==
    (fn_result # <<>> /\ fn_args[1].hour >= 0) =>
        LET c == fn_args[1]
            base == c.now.day - c.back
            t == c.hour * 3600 + c.minute * 60
        IN  fn_result[1] =
              << IF t - 3600 < 0 THEN Datetime(base, 0, 0, FALSE)
                 ELSE Datetime(base, t - 3600, 0, FALSE),
                 IF t + 3600 > 86399 THEN Datetime(base, 86399, 999999, FALSE)
                 ELSE Datetime(base, t + 3600, 0, FALSE) >>

C22_Witness ==
    /\ fn_result # <<>>
    /\ fn_args[1].hour = 23 /\ fn_args[1].minute = 30
    /\ fn_args[1].back = 1
    /\ fn_result[1][1] = Datetime(fn_args[1].now.day - 1, 81000, 0, FALSE)
    /\ fn_result[1][2] = Datetime(fn_args[1].now.day - 1, 86399, 999999, FALSE)

\* C23: for a question with a day-part word and no explicit clock time the
\* window is the fixed one of that part on the base date: morning 05:00-12:00,
\* afternoon 12:00-18:00, evening or night 18:00-23:59:59.999999; with
\* yesterday the base date is the day before now.
C23_DayPartWindow ==
    (fn_result # <<>> /\ fn_args[1].hour < 0 /\ fn_args[1].part # "") =>
        LET c == fn_args[1]
            base == c.now.day - c.back
        IN  fn_result[1] =
              CASE c.part = "morning" ->
                     <<Datetime(base, 5 * 3600, 0, FALSE), Datetime(base, 12 * 3600, 0, FALSE)>>
                [] c.part = "afternoon" ->
                     <<Datetime(base, 12 * 3600, 0, FALSE), Datetime(base, 18 * 3600, 0, FALSE)>>
                [] c.part \in {"evening", "night"} ->
                     <<Datetime(base, 18 * 3600, 0, FALSE), Datetime(base, 86399, 999999, FALSE)>>

C23_Witness ==
    /\ fn_result # <<>>
    /\ fn_args[1].question = "what was I doing yesterday afternoon"
    /\ fn_args[1].now.day = 10
    /\ fn_result[1] = <<Datetime(9, 43200, 0, FALSE), Datetime(9, 64800, 0, FALSE)>>

(***************************************************************************)
(* run_kg_qa applied on its own: a store of facts stamped by               *)
(* make_timestamp, a question and a clock are drawn.                       *)
(***************************************************************************)
\* the drawn store holds at most QaMaxStore facts
QaMaxStore == 2

\* the moments the drawn facts were stored at, on this machine's clock
QaStoredAt ==
    {Datetime(10, 9 * SecondsPerHour, 0, FALSE),
     Datetime(10, 15 * SecondsPerHour, 0, FALSE),
     Datetime(9, 13 * SecondsPerHour, 0, FALSE)}

QaEdges ==
    {Edge("User", "LIKES", obj, make_timestamp(at, "+00:00"), "none") :
        obj \in {"tea"}, at \in QaStoredAt}
    \cup {Edge("User", "LIVES_IN", "Sydney",
               make_timestamp(Datetime(10, 9 * SecondsPerHour, 0, FALSE), "+00:00"), "none")}

QaStores == UNION {[1..n -> QaEdges] : n \in 0..QaMaxStore}

QaQuestions ==
    {"where do I live", "what did I say today", "what was I doing yesterday afternoon",
     "what did I tell you at 3pm", "this morning"}

QaNows == {Datetime(10, 16 * SecondsPerHour, 250000, FALSE),
           Datetime(11, 60, 0, FALSE)}

InitQa ==
    /\ store \in QaStores
    /\ fn_args \in {<<q, n>> : q \in QaQuestions, n \in QaNows}
    /\ fn_result = <<>>
    /\ pending_conflict = <<>>
    /\ show_curator = TRUE
    /\ show_enricher = TRUE
    /\ running = TRUE
    /\ triplets = <<>>
    /\ timestamp = 0
    /\ clock = 0
    /\ last = Did("start", "", "None")
    /\ superseded = <<>>
    /\ both_kept = {}

QaApply ==
    /\ fn_result = <<>>
    /\ fn_result' = <<run_kg_qa(store, fn_args[1], fn_args[2], QaMaxRecords)>>
    /\ UNCHANGED <<store, pending_conflict, show_curator, show_enricher, running,
                   triplets, timestamp, clock, last, superseded, both_kept, fn_args>>

NextQa == QaApply

SpecQa == InitQa /\ [][NextQa]_vars

\* the stored facts whose timestamp, read as the local time it was written
\* at, lies inside the window
FactsInside(window) ==
    {TripletDict(store[i]) : i \in {k \in 1..Len(store) :
        LET ts == store[k].timestamp
            at == Datetime(ts.day, ts.sec, 0, FALSE)
        IN  DtLeq(window[1], at) /\ DtLeq(at, window[2])}}

\* the answer did not raise and its evidence is what the window asks for
WindowEvidence(window, answer) ==
    (store # <<>> /\ window # <<>>)
    => /\ ~answer.raised
       /\ answer.evidence # <<>>
       /\ Range(answer.evidence) =
            IF FactsInside(window) # {} THEN FactsInside(window) ELSE FactsOf(store)

\* C21: when the question yields a window and the store holds facts stamped
\* by make_timestamp, run_kg_qa completes without failing and the evidence is
\* exactly the facts inside the window if there is one, otherwise all stored
\* facts; it is never empty.
C21_WindowEvidence ==
    fn_result # <<>>
    => WindowEvidence(detect_time_window(fn_args[1], fn_args[2]), fn_result[1])

(***************************************************************************)
(* One conversational turn whose replies list malformed records.           *)
(***************************************************************************)
\* a reply of the drawn turn lists at most MalformedMaxItems records
MalformedMaxItems == 2

\* what a list of either reply may hold: complete records, something that
\* is not a record, and records lacking or blanking a key
MalformedItems ==
    {Rel("USER", "likes", "tea"),
     Rel("USER", "likes", "jazz"),
     NonDictItem,
     DictItem([subj |-> "USER", obj |-> "coffee"]),
     DictItem([subj |-> "USER", rel |-> "likes"]),
     DictItem([subj |-> "USER", rel |-> " ", obj |-> "milk"])}

MalformedLists == UNION {[1..n -> MalformedItems] : n \in 0..MalformedMaxItems}

MalformedCuratorReplies ==
    {[json |-> TRUE, candidates |-> cs] : cs \in MalformedLists}

MalformedEnricherReplies ==
    {[json |-> FALSE, entities |-> <<>>, relations |-> <<>>]}
    \cup {[json |-> TRUE, entities |-> <<NonDictItem>>, relations |-> rs] :
            rs \in MalformedLists}

InitMalformed ==
    /\ fn_args \in MalformedCuratorReplies \X MalformedEnricherReplies
    /\ fn_result = <<>>
    /\ store = <<>>
    /\ pending_conflict = <<>>
    /\ show_curator = TRUE
    /\ show_enricher = TRUE
    /\ running = TRUE
    /\ triplets = <<>>
    /\ timestamp = 0
    /\ clock = 0
    /\ last = Did("start", "", "None")
    /\ superseded = <<>>
    /\ both_kept = {}

NextMalformed == BuildNothing \/ BuildTurn \/ SkipExisting \/ StoreTriplet

SpecMalformed == InitMalformed /\ [][NextMalformed]_vars

Lacks(item, key) == key \notin DOMAIN item.d

\* the reply without the records for which malformed holds
WithoutCandidates(reply, malformed(_)) ==
    [reply EXCEPT !.candidates = SelectSeq(reply.candidates, LAMBDA c : ~malformed(c))]

WithoutRelations(reply, malformed(_)) ==
    [reply EXCEPT !.relations = SelectSeq(reply.relations, LAMBDA r : ~malformed(r))]

\* the turn is over: its facts are built and every one of them was visited
TurnStored == fn_result # <<>> /\ triplets = <<>>

\* the turn built and stored exactly what it builds and stores from the
\* replies without their malformed records
AsIfAbsent(malformed_candidate(_), malformed_relation(_)) ==
    LET expected == PipelineTriplets(WithoutCandidates(fn_args[1], malformed_candidate),
                                     WithoutRelations(fn_args[2], malformed_relation))
    IN  /\ fn_result # <<>> => fn_result[1] = expected
        /\ TurnStored =>
                {Triplet(store[i].subj, store[i].rel, store[i].obj) : i \in 1..Len(store)}
                    = Range(expected)

MissingRelOrObj(item) == ~item.isdict \/ Lacks(item, "rel") \/ Lacks(item, "obj")

MissingObj(item) == ~item.isdict \/ Lacks(item, "obj")

NonJsonCuratorReply == CHOOSE c \in 1..Len(CuratorReplies) : ~CuratorReplies[c].json

\* a turn that answered the user and stopped at  if not curator_result.candidates
NothingToRememberStep == Idle /\ last'.route = "chat" /\ clock' = clock

\* C25: a Curator reply that is not valid JSON gives an empty result with an
\* explanatory note, and the turn it ends, which has answered the user, stores
\* nothing, leaves the store and the pending conflict as they were and leaves
\* the loop ready for the next utterance.
C25_NonJsonCuratorTurn ==
    [][/\ CuratorResult[NonJsonCuratorReply] =
            [candidates |-> <<>>,
             notes |-> <<"Curator output was not valid JSON; stored nothing.">>]
       /\ NothingToRememberStep
            => /\ store' = store
               /\ pending_conflict' = pending_conflict
               /\ triplets' = <<>>
               /\ running']_vars

\* such a turn was taken with facts in the store and a conflict pending
C25_Witness ==
    /\ running
    /\ last = Did("chat", "hello", "None")
    /\ triplets = <<>>
    /\ clock = MaxTime
    /\ pending_conflict # <<>>
    /\ Len(store) = 2

\* the line read in this step, as the loop sees it
LineRead == str_strip(last'.input)

HasKgPrefix(user_input) == str_startswith(str_lower(user_input), "/kg")

\* what a step that took the line as a '/kg' command of the given kind does:
\* nothing reaches the extraction pipeline and no fact is added
KgEffect(kind) ==
    /\ last'.route \in {"kg", "raise"}
    /\ triplets' = <<>>
    /\ clock' = clock
    /\ FactsOf(store') \subseteq FactsOf(store)
    /\ kind = "clean" => store' = <<>>
    /\ kind \in {"show", "question", "usage"} => store' = store

\* the inputs the loop handles before it would converse
IsToggle(user_input) ==
    str_lower(user_input) \in {"/curator on", "curator on", "/curator off", "curator off",
                               "/enricher on", "enricher on", "/enricher off", "enricher off"}

IsExitWord(user_input) == str_lower(user_input) \in {"exit", "quit", "/exit", "/quit"}

IsPendingChoice(user_input) ==
    pending_conflict # <<>> /\ interpret_conflict_choice(user_input) # "None"

\* what each of the model's lines is once stripped, computed once
LineIs ==
    [line \in Inputs |->
        [prefixed |-> HasKgPrefix(str_strip(line)),
         kind |-> KgSubcommand(str_strip(line)),
         bare |-> str_strip(line) = "/kg",
         empty |-> str_strip(line) = "",
         toggle |-> IsToggle(str_strip(line)),
         exit |-> IsExitWord(str_strip(line))]]

\* C26 as stated: an input with the '/kg' prefix is routed to exactly one of
\* wipe, listing, removal and question answering and neither feeds the
\* pipeline nor stores a fact; every other input is conversation.
C26_Original ==
    [][ReadsLine =>
            IF LineIs[last'.input].prefixed
            THEN /\ LineIs[last'.input].kind \in {"clean", "show", "remove", "question"}
                 /\ KgEffect(LineIs[last'.input].kind)
            ELSE last'.route = "chat"]_vars

\* C26: an input with the '/kg' prefix and some text after it is routed to
\* exactly one of wipe, listing, removal and question answering, a bare '/kg'
\* to a usage hint, and neither feeds the pipeline nor stores a fact; every
\* other input is conversation unless it is empty, a display toggle, an exit
\* word or, while a conflict is pending, a resolution choice.
C26_KgPrefixRouted ==
    [][ReadsLine =>
            IF LineIs[last'.input].prefixed
            THEN /\ LineIs[last'.input].kind \in
                        {"clean", "show", "remove", "question", "usage"}
                 /\ LineIs[last'.input].kind = "usage" <=> LineIs[last'.input].bare
                 /\ KgEffect(LineIs[last'.input].kind)
            ELSE last'.route = "chat"
                    <=> ~(\/ LineIs[last'.input].empty
                          \/ LineIs[last'.input].toggle
                          \/ LineIs[last'.input].exit
                          \/ (pending_conflict # <<>>
                                /\ Choice[last'.input] # "None"))]_vars

\* a question was put with '/kg' to a store holding a fact, which is still there
C26_Witness ==
    /\ last.route = "kg"
    /\ last.input = "/kg where do I live"
    /\ store # <<>>
    /\ running

(***************************************************************************)
(* build_triplets_from_enricher applied on its own to a drawn              *)
(* EnricherResult.                                                         *)
(***************************************************************************)
\* the drawn EnricherResult lists at most BuilderMaxRelations relations
BuilderMaxRelations == 2

\* relations as the builder reads them: subj, rel and obj texts
BuilderRelations ==
    {Triplet("USER", "likes", "tea"),
     Triplet("", "likes", "tea"),
     Triplet("  ", "likes", "jazz"),
     Triplet("USER", "likes", ""),
     Triplet("USER", "has", " "),
     Triplet("USER", "LIVES_IN", "e1"),
     Triplet("Bob", "knows", "Bob"),
     Triplet("", "knows", " ")}

BuilderEntities ==
    {<<>>, <<DictItem([key |-> "e1", label |-> "Sydney", type |-> "place"])>>}

BuilderResults ==
    {[entities |-> es, relations |-> rs, notes |-> <<>>] :
        es \in BuilderEntities,
        rs \in UNION {[1..n -> BuilderRelations] : n \in 0..BuilderMaxRelations}}

InitBuilder == InitFn(BuilderResults)

BuilderApply ==
    /\ fn_result = <<>>
    /\ fn_result' = <<build_triplets_from_enricher(fn_args[1], UserCanonicalId)>>
    /\ UNCHANGED <<store, pending_conflict, show_curator, show_enricher, running,
                   triplets, timestamp, clock, last, superseded, both_kept, fn_args>>

NextBuilder == BuilderApply

SpecBuilder == InitBuilder /\ [][NextBuilder]_vars

BlankEndpoint(r) == str_strip(r.subj) = "" \/ str_strip(r.obj) = ""

\* C27: a relation whose subject or object text is empty or only whitespace
\* yields no fact from build_triplets_from_enricher: the builder returns what
\* it returns without that relation.
C27_BlankEndpointRejected ==
    fn_result # <<>>
    => fn_result[1] =
        build_triplets_from_enricher(
            [fn_args[1] EXCEPT !.relations =
                SelectSeq(fn_args[1].relations, LAMBDA r : ~BlankEndpoint(r))],
            UserCanonicalId)

(***************************************************************************)
(* apply_conflict_resolution applied on its own: a graph, a conflict       *)
(* record and a choice are drawn.  The graph outlives the session and the  *)
(* record does not, so the graph may hold facts the record does not name.  *)
(***************************************************************************)
\* the drawn graph holds at most ResolveMaxStore facts
ResolveMaxStore == 3

ResolveEdges ==
    {Edge("User", "LIVES_IN", obj, ts, status) :
        obj \in {"Melbourne", "Sydney", "Perth"}, ts \in 1..2, status \in {"none", "past"}}
    \cup {Edge("User", "WORKS_AT", "Acme", 2, "none")}

\* graphs the store loop can have written: no (subject, relation, object) twice
ResolveStores ==
    {st \in UNION {[1..n -> ResolveEdges] : n \in 0..ResolveMaxStore} :
        \A i, j \in 1..Len(st) :
            (st[i].subj = st[j].subj /\ st[i].rel = st[j].rel /\ st[i].obj = st[j].obj)
                => i = j}

\* records of the fact User -[LIVES_IN]-> Sydney written at 2 against Melbourne
ResolveRecords ==
    {[subj |-> "User", rel |-> "LIVES_IN", new_obj |-> "Sydney", new_ts |-> 2,
      old |-> <<[subj |-> "User", rel |-> "LIVES_IN", obj |-> "Melbourne",
                 timestamp |-> ts]>>] : ts \in 1..2}

ResolveCases ==
    {[st |-> st, choice |-> choice, conflict |-> c] :
        st \in ResolveStores, choice \in {"A", "B", "C"}, c \in ResolveRecords}

InitResolve == InitFn(ResolveCases)

ResolveApply ==
    /\ fn_result = <<>>
    /\ fn_result' = <<apply_conflict_resolution(fn_args[1].st, fn_args[1].choice,
                                                fn_args[1].conflict)>>
    /\ UNCHANGED <<store, pending_conflict, show_curator, show_enricher, running,
                   triplets, timestamp, clock, last, superseded, both_kept, fn_args>>

NextResolve == ResolveApply

SpecResolve == InitResolve /\ [][NextResolve]_vars

\* the facts of a graph, with their status, that the record does not name
Unnamed(st, c) == SelectSeq(st, LAMBDA e : ~IsOfRecord(e, c))

\* C28: a resolution changes only the facts the record names, matched by
\* subject, relation, timestamp and object: every other fact, a fact of the
\* record's subject, relation and timestamp with another object included, is
\* still stored afterwards with the status it had.
C28_OnlyNamedFactsChange ==
    fn_result # <<>>
    => Unnamed(fn_result[1], fn_args[1].conflict) =
            Unnamed(fn_args[1].st, fn_args[1].conflict)

\* a resolution was applied to a graph holding the record's two facts and
\* User -[LIVES_IN]-> Perth written at the new fact's timestamp
C28_Witness ==
    /\ fn_result # <<>>
    /\ fn_args[1].choice = "A"
    /\ Len(fn_args[1].st) = 3
    /\ \E i, j, k \in 1..3 :
          /\ IsNewOf(fn_args[1].st[i], fn_args[1].conflict)
          /\ IsOldOf(fn_args[1].st[j], fn_args[1].conflict)
          /\ fn_args[1].st[k] = Edge("User", "LIVES_IN", "Perth", 2, "none")
          /\ fn_result[1][i].status = "current"
          /\ fn_result[1][j].status = "past"
          /\ fn_result[1][k].status = "none"

\* C29: a round of the store loop that comes to a fact whose subject, relation
\* and object are already stored, whatever the stored fact's status, inserts
\* nothing, changes no status and no timestamp, raises no conflict and leaves
\* the pending record as it was.
C29_ReassertionChangesNothing ==
    [][(/\ running /\ triplets # <<>>
        /\ HasFact(store, Head(triplets)))
       => /\ store' = store
          /\ pending_conflict' = pending_conflict
          /\ triplets' = Tail(triplets)]_vars

\* the only stored fact was written at 1 and marked past by resolution A; a
\* turn at 2 re-asserted it and stored nothing
C29_Witness ==
    /\ last.route = "chat" /\ last.skipped
    /\ triplets = <<>>
    /\ timestamp = 2
    /\ Len(store) = 1
    /\ store[1].status = "past" /\ store[1].timestamp = 1
    /\ pending_conflict = <<>>

\* C30: a line starting with '/kg' read while a conflict is pending is not
\* taken as a choice and leaves the record as it was, whatever the command
\* does to the store; a choice read afterwards is applied to that record and
\* discards it.
C30_KgKeepsPendingRecord ==
    [][/\ (ReadsLine /\ pending_conflict # <<>> /\ HasKgPrefix(LineRead))
            => /\ last'.route # "resolve"
               /\ pending_conflict' = pending_conflict
       /\ (ReadsLine /\ IsPendingChoice(LineRead) /\ ~HasKgPrefix(LineRead)
                     /\ ~IsToggle(LineRead))
            => /\ store' = apply_conflict_resolution(
                                store, interpret_conflict_choice(LineRead),
                                pending_conflict[1])
               /\ pending_conflict' = <<>>]_vars

\* C31: conflict detection does not look at the status: when the store loop
\* writes a new fact of a single-valued relation, every stored fact of the same
\* subject and relation with another object, a fact marked past by an earlier
\* resolution included, is in the old list of the record raised.
C31_DetectionIgnoresStatus ==
    [][(/\ running /\ triplets # <<>>
        /\ ~HasFact(store, Head(triplets))
        /\ Head(triplets).rel \in SINGLE_VALUED_RELATIONS)
       => \A i \in 1..Len(store) :
            (/\ store[i].subj = Head(triplets).subj
             /\ store[i].rel = Head(triplets).rel
             /\ store[i].obj # Head(triplets).obj)
            => /\ pending_conflict' # <<>>
               /\ pending_conflict'[1].new_obj = Head(triplets).obj
               /\ TripletDict(store[i]) \in Range(pending_conflict'[1].old)]_vars

\* the record of the fact written last names a fact that an earlier
\* resolution marked past
C31_Witness ==
    /\ pending_conflict # <<>>
    /\ store # <<>>
    /\ store[Len(store)].obj = pending_conflict[1].new_obj
    /\ store[Len(store)].timestamp = pending_conflict[1].new_ts
    /\ \E i \in 1..Len(store) :
          /\ store[i].status = "past"
          /\ store[i].timestamp < pending_conflict[1].new_ts
          /\ IsOldOf(store[i], pending_conflict[1])

\* a Curator candidate as one flat fact, USER standing for the canonical user id
FlatFact(c) ==
    Triplet(norm(IF str_upper(c.subj) = "USER" THEN UserCanonicalId ELSE c.subj),
            normalize_relation(c.rel), norm(c.obj))

\* what the fallback turn has to build from the candidates and, once the
\* store loop is through, to have stored: every flat fact once, and a record
\* pending exactly when two of them differ on a single-valued relation
StoredFlat(candidates, turn) ==
    /\ turn = [k \in 1..Len(candidates) |-> FlatFact(candidates[k])]
    /\ TurnStored
        => /\ {Triplet(store[i].subj, store[i].rel, store[i].obj) : i \in 1..Len(store)}
                = Range(turn)
           /\ Len(store) = Cardinality(Range(turn))
           /\ pending_conflict # <<>>
                <=> \E i, j \in 1..Len(store) :
                        /\ store[i].subj = store[j].subj
                        /\ store[i].rel = store[j].rel
                        /\ store[i].rel \in SINGLE_VALUED_RELATIONS
                        /\ store[i].obj # store[j].obj

\* C32: in a turn where the Curator gave at least one candidate and the
\* Enricher-based builder gives no fact, every candidate becomes one flat fact
\* with USER mapped to the canonical user id, and the store loop puts these
\* facts through the existence check and the conflict detection.
C32_FlatFallback ==
    (/\ fn_result # <<>>
     /\ run_curator(fn_args[1]).candidates # <<>>
     /\ build_triplets_from_enricher(run_enricher(fn_args[2]), UserCanonicalId) = <<>>)
    => StoredFlat(run_curator(fn_args[1]).candidates, fn_result[1])

\* an Enricher reply that is not JSON, three candidates stored flat, the
\* second LIVES_IN fact of the user raising a conflict
C32_Witness ==
    /\ TurnStored
    /\ ~fn_args[2].json
    /\ Len(fn_args[1].candidates) = 3
    /\ Len(store) = 3
    /\ store[1].subj = "User" /\ store[1].rel = "LIVES_IN"
    /\ store[3].subj = "User" /\ store[3].rel = "LIVES_IN"
    /\ pending_conflict # <<>>
    /\ pending_conflict[1].new_obj = store[3].obj

(***************************************************************************)
(* detect_time_window applied on its own to questions whose clock time is  *)
(* near midnight or has an hour or a minute out of range.                  *)
(***************************************************************************)
EdgeClockTimes ==
    {"", "at 13 pm", "99am", "11:75 pm", "0 am", "00:00am", "12:59 am", "11:59 pm",
     "1230pm", "23.99 pm", "12 pm", "at 11 pm", "1 am"}

EdgeCases ==
    {[question |-> d.text \o c \o p.text, now |-> n, back |-> d.back] :
        d \in WindowDayWords, c \in EdgeClockTimes, p \in WindowDayParts,
        n \in WindowNows}

InitEdge == InitFn(EdgeCases)

NextEdge == WindowApply

SpecEdge == InitEdge /\ [][NextEdge]_vars

\* C33: every window detect_time_window returns has start <= end, and start
\* and end lie on the base date, whatever the question and the clock, clock
\* times near midnight and hours or minutes out of range included.
C33_WindowWithinBaseDate ==
    (fn_result # <<>> /\ fn_result[1] # <<>>)
    => /\ DtLeq(fn_result[1][1], fn_result[1][2])
       /\ fn_result[1][1].day = fn_args[1].now.day - fn_args[1].back
       /\ fn_result[1][2].day = fn_args[1].now.day - fn_args[1].back
       /\ fn_result[1][1].sec \in 0..(SecondsPerDay - 1)
       /\ fn_result[1][2].sec \in 0..(SecondsPerDay - 1)

\* 99am asked one microsecond before midnight: the hour is clamped to 23 and
\* the window is 22:00:00 to 23:59:59.999999 of that day
C33_Witness ==
    /\ fn_result # <<>>
    /\ fn_args[1].question = "99am"
    /\ fn_args[1].now = Datetime(1, SecondsPerDay - 1, LastMicrosecond, FALSE)
    /\ fn_result[1] = <<Datetime(1, 22 * SecondsPerHour, 0, FALSE),
                        Datetime(1, SecondsPerDay - 1, LastMicrosecond, FALSE)>>

=============================================================================
